---- MODULE Spec2Model ----
(***************************************************************************)
(* Open-LLM-VTuber: the group registry (chat_group.py), the conversation   *)
(* scheduler (conversation_handler.py, websocket_handler.py), the          *)
(* conversation tasks (single_conversation.py, group_conversation.py) and  *)
(* the ordered delivery of synthesized fragments (tts_manager.py), and the  *)
(* voice-activity state machine (vad/silero.py).                           *)
(*                                                                         *)
(* The program runs on one asyncio event loop: code between two awaits is  *)
(* atomic, so every action below is the code from one suspension point to  *)
(* the next.                                                               *)
(***************************************************************************)
EXTENDS Integers, Sequences, FiniteSets, TLC

\* ------------------------------------------------------------------------
\* Bounds
\* ------------------------------------------------------------------------

\* conversation tasks created in one behaviour
MaxTasks == 2

\* fragments passed to speak() by one conversation task (scheduler runs)
MaxFragSched == 1

\* fragments passed to speak() in the delivery-queue runs
MaxFrag == 3

\* chunks accumulated in one client's audio buffer
MaxAudio == 1

\* turns of a group conversation whose transcript is followed (rotation runs)
MaxTurns == 6

\* sentences the members of a group conversation produce (rotation runs)
MaxReplies == 2

\* utterances of the voice-activity state machine that are counted
MaxOnsets == 2

\* required_hits, required_misses and smoothing_window of the short
\* configurations of the voice-activity state machine
MaxHits == 2
MaxMisses == 2
MaxWindow == 2

\* frames handed to the state machine in the runs that follow each frame
\* through the buffers
MaxFrames == 36

\* client uids of the scheduler runs and of the registry runs
Clients == {"A", "B"}
RegClients == {"A", "B", "C"}
AllClients == Clients \cup RegClients

\* ------------------------------------------------------------------------
\* State
\* ------------------------------------------------------------------------

VARIABLES
    client_connections,          \* WebSocketHandler.client_connections (keys)
    client_contexts,             \* WebSocketHandler.client_contexts (keys)
    received_data_buffers,       \* uid -> number of buffered audio chunks
    client_group_map,            \* ChatGroupManager.client_group_map
    groups,                      \* ChatGroupManager.groups
    current_conversation_tasks,  \* key -> index into tasks
    tasks,                       \* every asyncio.Task created for a conversation
    handler,                     \* uid -> position of that client's message loop
    lastOp,                      \* the handler step or task step taken last
    vad,                         \* the StateMachine of a client's VADEngine
    group_update                 \* the group operations in progress and the
                                 \* group-update each client received last

vars == <<client_connections, client_contexts, received_data_buffers,
          client_group_map, groups, current_conversation_tasks, tasks,
          handler, lastOp, vad, group_update>>

\* ------------------------------------------------------------------------
\* Python dictionaries
\* ------------------------------------------------------------------------

\* d[k] = v
Put(d, k, v) == (k :> v) @@ d

\* del d[k] / d.pop(k, None)
Del(d, k) == [x \in (DOMAIN d) \ {k} |-> d[x]]

\* the empty dictionary
EmptyDict == [x \in {} |-> 0]

\* ------------------------------------------------------------------------
\* ChatGroupManager (chat_group.py)
\* ------------------------------------------------------------------------

\* client_group_map[uid] = "": connected, in no group
NoGroup == <<>>

\* f"group_{uid}"
GroupId(uid) == <<"group", uid>>

\* client_group_map.get(uid); None and "" are both falsy and only the
\* truthiness of the result is ever used
MapGet(cgm, uid) == IF uid \in DOMAIN cgm THEN cgm[uid] ELSE NoGroup

\* Group(group_id, owner_uid, members)
Group(owner, members) == [owner_uid |-> owner, members |-> members]

\* result of a registry operation: the status and the registry after it
RegResult(status, cgm, grps) == [status |-> status, cgm |-> cgm, groups |-> grps]

\* a scheduling key: the client uid or the group id, kept apart by a tag
ClientKey(uid) == <<"client", uid>>

\* ChatGroupManager.get_client_group: the group id when the client's entry
\* names a group that exists, NoGroup (None) otherwise
get_client_group(cgm, grps, uid) ==
    LET gid == MapGet(cgm, uid)
    IN IF gid # NoGroup /\ gid \in DOMAIN grps THEN gid ELSE NoGroup

\* ChatGroupManager.get_group_members
get_group_members(cgm, grps, uid) ==
    LET gid == get_client_group(cgm, grps, uid)
    IN IF gid # NoGroup THEN grps[gid].members ELSE {}

\* ChatGroupManager.add_client_to_group
add_client_to_group(cgm, grps, inviter_uid, invitee_uid) ==
    IF invitee_uid \notin DOMAIN cgm
    THEN RegResult("fail", cgm, grps)
    ELSE IF cgm[invitee_uid] # NoGroup
    THEN RegResult("fail", cgm, grps)
    ELSE
      LET inviter_group_id0 == MapGet(cgm, inviter_uid)
          created == inviter_group_id0 = NoGroup
          inviter_group_id ==
              IF created THEN GroupId(inviter_uid) ELSE inviter_group_id0
          grps1 == IF created
                   THEN Put(grps, inviter_group_id,
                            Group(inviter_uid, {inviter_uid}))
                   ELSE grps
          cgm1 == IF created THEN Put(cgm, inviter_uid, inviter_group_id)
                  ELSE cgm
      IN IF inviter_group_id \notin DOMAIN grps1
         THEN RegResult("raise", cgm, grps)     \* KeyError, nothing written
         ELSE RegResult("ok",
                  Put(cgm1, invitee_uid, inviter_group_id),
                  [grps1 EXCEPT ![inviter_group_id].members =
                                      @ \cup {invitee_uid}])

\* a remove_client_from_group that does not test who the remover is
remove_client_from_group_by_anyone(cgm, grps, remover_uid, target_uid) ==
    LET target_group_id == MapGet(cgm, target_uid)
    IN
    IF target_group_id = NoGroup
    THEN RegResult("fail", cgm, grps)
    ELSE IF target_group_id \notin DOMAIN grps
    THEN RegResult("raise", cgm, grps)
    ELSE
      LET group == grps[target_group_id]
      IN
      IF target_uid \notin group.members
      THEN RegResult("raise", cgm, grps)
      ELSE
        LET members1 == group.members \ {target_uid}
            cgm1 == Put(cgm, target_uid, NoGroup)
        IN
        IF Cardinality(members1) <= 1
        THEN RegResult("ok",
                 [u \in DOMAIN cgm1 \cup members1 |->
                      IF u \in members1 THEN NoGroup ELSE cgm1[u]],
                 Del(grps, target_group_id))
        ELSE RegResult("ok", cgm1,
                 [grps EXCEPT ![target_group_id].members = members1])

\* ChatGroupManager.remove_client_from_group
remove_client_from_group(cgm, grps, remover_uid, target_uid) ==
    LET target_group_id == MapGet(cgm, target_uid)
    IN
    IF target_group_id = NoGroup
    THEN RegResult("fail", cgm, grps)
    ELSE IF target_group_id \notin DOMAIN grps
    THEN RegResult("raise", cgm, grps)          \* KeyError
    ELSE
      LET group == grps[target_group_id]
      IN
      IF remover_uid # group.owner_uid /\ remover_uid # target_uid
      THEN RegResult("fail", cgm, grps)
      ELSE IF target_uid \notin group.members
      THEN RegResult("raise", cgm, grps)        \* set.remove: KeyError
      ELSE
        LET members1 == group.members \ {target_uid}
            cgm1 == Put(cgm, target_uid, NoGroup)
        IN
        IF Cardinality(members1) <= 1
        THEN \* the one member left, if any, is taken out and the group deleted
             RegResult("ok",
                 [u \in DOMAIN cgm1 \cup members1 |->
                      IF u \in members1 THEN NoGroup ELSE cgm1[u]],
                 Del(grps, target_group_id))
        ELSE RegResult("ok", cgm1,
                 [grps EXCEPT ![target_group_id].members = members1])

\* ChatGroupManager.remove_client; new_owner is the element list(set)[0]
\* yields, any of the remaining members
remove_client(cgm, grps, client_uid, new_owner) ==
    LET group_id == MapGet(cgm, client_uid)
    IN
    IF group_id = NoGroup \/ group_id \notin DOMAIN grps
    THEN RegResult("none", cgm, grps)
    ELSE
      LET group == grps[group_id]
          members1 == group.members \ {client_uid}
          cgm1 == Del(cgm, client_uid)
      IN
      IF group.owner_uid = client_uid
      THEN IF members1 # {}
           THEN RegResult("ok", cgm1,
                    [grps EXCEPT ![group_id] = Group(new_owner, members1)])
           ELSE RegResult("ok", cgm1, Del(grps, group_id))
      ELSE IF members1 = {}
      THEN RegResult("ok", cgm1, Del(grps, group_id))
      ELSE RegResult("ok", cgm1,
               [grps EXCEPT ![group_id].members = members1])

\* the members remove_client may pick as the new owner
OwnerChoices(cgm, grps, client_uid) ==
    LET rest == get_group_members(cgm, grps, client_uid) \ {client_uid}
    IN IF rest = {} THEN {client_uid} ELSE rest

\* ------------------------------------------------------------------------
\* TTSTaskManager (conversations/tts_manager.py)
\* ------------------------------------------------------------------------

\* prepare_audio_payload(audio_path, display_text, actions) with its
\* sequence number; audio = FALSE is the silent payload (audio_path = None)
Payload(seq, audio, text) == [seq |-> seq, audio |-> audio, text |-> text]

\* TTSTaskManager.__init__
\*   synth: the tasks created for _process_tts, by sequence number
\*   sender_task: "none", "get" (suspended in queue.get), "send" (suspended
\*     in websocket_send), "cancelling" (cancel() called, not yet run), "done"
\*   buffered_payloads: the drainer's local dictionary
\*   sent: what websocket_send was called with, in call order
\*   fragments, failed, arrivals: the arguments of speak(), the fragments
\*     whose synthesis raised and the order of the queue.put calls
NewTTSTaskManager ==
    [task_list |-> {},
     synth |-> EmptyDict,
     payload_queue |-> <<>>,
     sender_task |-> "none",
     buffered_payloads |-> EmptyDict,
     sequence_counter |-> 0,
     next_sequence_to_send |-> 0,
     sent |-> <<>>,
     fragments |-> <<>>,
     failed |-> {},
     arrivals |-> <<>>]

\* self._payload_queue.put((payload, sequence_number)); the queue is
\* unbounded, put never suspends
QueuePut(m, p) ==
    [m EXCEPT !.payload_queue = Append(@, p),
              !.arrivals = Append(@, p.seq)]

\* a speak() that takes no sequence number of its own for an empty text
speak_empty_unnumbered(m, empty, text) ==
    LET current_sequence == m.sequence_counter
        fresh == m.sender_task \in {"none", "done"}
        m1 == [m EXCEPT !.sequence_counter = IF empty THEN @ ELSE @ + 1,
                        !.sender_task = IF fresh THEN "get" ELSE @,
                        !.buffered_payloads = IF fresh THEN EmptyDict ELSE @,
                        !.fragments = Append(@, [text |-> text, empty |-> empty,
                                                 seq |-> current_sequence])]
    IN IF empty
       THEN QueuePut(m1, Payload(current_sequence, FALSE, text))
       ELSE [m1 EXCEPT !.synth = Put(@, current_sequence,
                                     [st |-> "running", text |-> text]),
                       !.task_list = @ \cup {current_sequence}]

\* TTSTaskManager.speak: the sequence number is taken, the drainer is
\* started when none is running, then either the silent payload is queued
\* (empty text) or a _process_tts task is created. fragments records the
\* texts passed to speak() and the number each was given
speak(m, empty, text) ==
    LET current_sequence == m.sequence_counter
        fresh == m.sender_task \in {"none", "done"}
        m1 == [m EXCEPT !.sequence_counter = @ + 1,
                        !.sender_task = IF fresh THEN "get" ELSE @,
                        !.buffered_payloads = IF fresh THEN EmptyDict ELSE @,
                        !.fragments = Append(@, [text |-> text, empty |-> empty,
                                                 seq |-> current_sequence])]
    IN IF empty
       THEN QueuePut(m1, Payload(current_sequence, FALSE, text))
       ELSE [m1 EXCEPT !.synth = Put(@, current_sequence,
                                     [st |-> "running", text |-> text]),
                       !.task_list = @ \cup {current_sequence}]

\* the _process_tts tasks of m that have not terminated
LiveSynth(m) == {i \in DOMAIN m.synth : m.synth[i].st \in {"running", "cancelling"}}

\* TTSTaskManager._process_tts, try branch: the audio is generated and the
\* payload queued
process_tts_ok(m, i) ==
    [QueuePut(m, Payload(i, TRUE, m.synth[i].text))
        EXCEPT !.synth[i].st = "done"]

\* a _process_tts whose except branch queues nothing
process_tts_fail_dropped(m, i) ==
    [m EXCEPT !.synth[i].st = "done", !.failed = @ \cup {i}]

\* TTSTaskManager._process_tts, except branch: the engine raised and the
\* silent payload is queued under the same sequence number
process_tts_fail(m, i) ==
    [QueuePut(m, Payload(i, FALSE, m.synth[i].text))
        EXCEPT !.synth[i].st = "done", !.failed = @ \cup {i}]

\* TTSTaskManager._process_tts hit by CancelledError: not an Exception, so
\* nothing is queued
process_tts_cancelled(m, i) == [m EXCEPT !.synth[i].st = "cancelled"]

\* Task.cancel() on every task of s that has not terminated
CancelSynth(m, s) ==
    [m EXCEPT !.synth = [i \in DOMAIN @ |->
        IF i \in s /\ @[i].st = "running"
        THEN [@[i] EXCEPT !.st = "cancelling"] ELSE @[i]]]

\* a drainer that sends whatever it has buffered, lowest number first,
\* without looking at the cursor
FlushArrived(m) ==
    IF DOMAIN m.buffered_payloads # {}
    THEN LET k == CHOOSE k \in DOMAIN m.buffered_payloads :
                      \A j \in DOMAIN m.buffered_payloads : k <= j
         IN [m EXCEPT !.sent = Append(@, m.buffered_payloads[k]),
                      !.buffered_payloads = Del(@, k),
                      !.sender_task = "send"]
    ELSE [m EXCEPT !.sender_task = "get"]

\* _process_payload_queue, the inner while loop up to its next suspension:
\* the payload the cursor names is popped and websocket_send is called
Flush(m) ==
    IF m.next_sequence_to_send \in DOMAIN m.buffered_payloads
    THEN [m EXCEPT !.sent = Append(@, m.buffered_payloads[m.next_sequence_to_send]),
                   !.buffered_payloads = Del(@, m.next_sequence_to_send),
                   !.sender_task = "send"]
    ELSE [m EXCEPT !.sender_task = "get"]

\* _process_payload_queue resumed from queue.get(): the payload is buffered
\* and the flush loop entered
drainer_get(m) ==
    LET p == Head(m.payload_queue)
    IN Flush([m EXCEPT !.payload_queue = Tail(@),
                       !.buffered_payloads = Put(@, p.seq, p)])

\* _process_payload_queue resumed from websocket_send: the cursor advances
\* and the flush loop goes on
drainer_sent(m) ==
    Flush([m EXCEPT !.next_sequence_to_send = @ + 1])

\* _process_payload_queue hit by CancelledError: break
drainer_cancelled(m) ==
    [m EXCEPT !.sender_task = "done", !.buffered_payloads = EmptyDict]

\* a clear() that leaves the drainer running
clear_keeps_drainer(m) ==
    [m EXCEPT !.task_list = {},
              !.sequence_counter = 0,
              !.next_sequence_to_send = 0,
              !.payload_queue = <<>>]

\* TTSTaskManager.clear
clear(m) ==
    [m EXCEPT !.task_list = {},
              !.sender_task = IF @ \in {"get", "send"} THEN "cancelling" ELSE @,
              !.sequence_counter = 0,
              !.next_sequence_to_send = 0,
              !.payload_queue = <<>>]

\* conversation_utils.cleanup_conversation
cleanup_conversation(m) == clear(m)

\* ------------------------------------------------------------------------
\* Conversation tasks (single_conversation.py, group_conversation.py)
\* ------------------------------------------------------------------------

\* the states in which Task.done() is true
Terminal == {"done", "error", "cancelled"}

\* the orders list(set) can yield
Perms(S) ==
    {q \in [1..Cardinality(S) -> S] : \A i, j \in 1..Cardinality(S) : q[i] = q[j] => i = j}

\* asyncio.create_task(process_single_conversation(...)): one TTSTaskManager,
\* the task is suspended in its first await (start signals, transcription)
\* no broadcast_to_group call of the conversation has begun. A call is
\* followed by its iterator over group_members: `used` is the size of the
\* set when the iterator was created, `visited` the members the loop has
\* passed, `sent` those a send_text was awaited for; `snapshot` records the
\* membership at the call
NoBroadcast ==
    [it |-> "none", used |-> 0, snapshot |-> {}, visited |-> {}, sent |-> {},
     exclude_uid |-> ""]

NewSingleTask(client_uid) ==
    [key |-> ClientKey(client_uid), kind |-> "single", client |-> client_uid,
     members |-> {client_uid}, group_queue |-> <<>>, speaker |-> client_uid,
     state |-> "running", stage |-> "input", must_cancel |-> FALSE,
     reported |-> FALSE, spoken |-> 0,
     conversation_history |-> <<>>,
     memory_index |-> [u \in {client_uid} |-> 0],
     new_messages |-> <<>>, full_response |-> FALSE,
     followed |-> FALSE, served |-> <<>>,
     tts |-> [u \in {client_uid} |-> NewTTSTaskManager],
     broadcast |-> NoBroadcast,
     state_group_id |-> NoGroup, registered |-> FALSE,
     shown |-> [u \in {client_uid} |-> <<>>],
     synth_complete |-> 0]

\* asyncio.create_task(process_group_conversation(...)): one TTSTaskManager
\* per member, group_queue = list(group_members), memory_index 0 for every
\* member. conversation_history holds the author of each entry, new_messages
\* and full_response are the locals of the turn in progress. The transcript
\* grows without bound: it is followed during the first turns of the
\* conversation, which are written to the log served. shown[u] lists the
\* positions of the transcript entries handed to u in its turns so far,
\* synth_complete counts the backend-synth-complete messages the turn in
\* progress has sent before finalize_conversation_turn
NewGroupTask(group_id, client_uid, members, queue) ==
    [key |-> group_id, kind |-> "group", client |-> client_uid,
     members |-> members, group_queue |-> queue, speaker |-> "",
     state |-> "running", stage |-> "input", must_cancel |-> FALSE,
     reported |-> FALSE, spoken |-> 0,
     conversation_history |-> <<>>,
     memory_index |-> [u \in members |-> 0],
     new_messages |-> <<>>, full_response |-> FALSE,
     followed |-> FALSE, served |-> <<>>,
     tts |-> [u \in members |-> NewTTSTaskManager],
     broadcast |-> NoBroadcast,
     state_group_id |-> GroupId(client_uid), registered |-> TRUE,
     shown |-> [u \in members |-> <<>>],
     synth_complete |-> 0]

TaskIds == 1..Len(tasks)

\* the author of the first entry of a group's transcript
Human == "Human"

\* a slice that hands over the whole list
Slice_whole(list, index) ==
    list

\* list[index:]
Slice(list, index) ==
    SubSeq(list, index + 1, Len(list))

done(t) == tasks[t].state \in Terminal

\* the task can take its next step: it has not ended and no CancelledError
\* is waiting to be thrown into it
Running(t) ==
    t \in TaskIds /\ tasks[t].state = "running" /\ ~tasks[t].must_cancel

\* Task.cancel(): a no-op on a finished task; otherwise CancelledError is
\* thrown into the task at its next step, and a task suspended in
\* asyncio.gather(*task_list) passes the cancellation on to the children
cancel(tk) ==
    IF tk.state \in Terminal THEN tk
    ELSE [tk EXCEPT !.must_cancel = TRUE,
                    !.tts = IF tk.stage = "gather"
                            THEN [@ EXCEPT ![tk.speaker] =
                                      CancelSynth(@, @.task_list)]
                            ELSE @]

\* GroupConversationState.__post_init__: _states[self.group_id] = self. The
\* state of a group task is created with group_id = group_{initiator}
\* (state_group_id); registered tells whether _states holds this task's
\* state under that id. A state registered before under the id is replaced
post_init(ts, group_id) ==
    [i \in DOMAIN ts |->
        IF ts[i].state_group_id = group_id
        THEN [ts[i] EXCEPT !.registered = FALSE] ELSE ts[i]]

\* GroupConversationState.remove_state: _states.pop(group_id, None),
\* whichever task's state is registered under the id. Single conversations
\* have no state (NoGroup)
remove_state(ts, group_id) ==
    [i \in DOMAIN ts |->
        IF group_id # NoGroup /\ ts[i].state_group_id = group_id
        THEN [ts[i] EXCEPT !.registered = FALSE] ELSE ts[i]]

\* the finally block of process_single_conversation and of
\* process_group_conversation: cleanup_conversation for every manager; the
\* coroutine's locals are gone with it
Finally(tk, state) ==
    [tk EXCEPT !.state = state,
               !.stage = "end",
               !.must_cancel = FALSE,
               !.group_queue = <<>>,
               !.speaker = "",
               !.spoken = 0,
               !.conversation_history = <<>>,
               !.memory_index = [u \in DOMAIN @ |-> 0],
               !.new_messages = <<>>,
               !.full_response = FALSE,
               !.followed = FALSE,
               !.served = <<>>,
               !.shown = [u \in DOMAIN @ |-> <<>>],
               !.synth_complete = 0,
               !.tts = [u \in DOMAIN @ |-> cleanup_conversation(@[u])]]

\* the children of a task whose cancellation was requested and not yet run
PendingCancel(tk) ==
    \E u \in DOMAIN tk.tts :
        \/ tk.tts[u].sender_task = "cancelling"
        \/ \E i \in DOMAIN tk.tts[u].synth : tk.tts[u].synth[i].st = "cancelling"

\* `await task` returns: the task is done, and the callbacks the loop had
\* queued before the task's completion callback (the wake-ups of the
\* children it cancelled) have run
AwaitReady(t) == done(t) /\ ~PendingCancel(tasks[t])

\* the last handler or task step, for the properties
Op(op, uid, key, task, prior, spawned, status) ==
    [op |-> op, uid |-> uid, key |-> key, task |-> task, prior |-> prior,
     spawned |-> spawned, status |-> status, signals |-> {}]

OtherOp == Op("other", "", NoGroup, 0, "", FALSE, "")

UNCHANGED_handlers ==
    UNCHANGED <<client_connections, client_contexts, received_data_buffers,
                client_group_map, groups, current_conversation_tasks, handler,
                vad, group_update>>

\* a variant of TaskInput whose transcript starts empty
TaskInput_empty_transcript(t) ==
    /\ Running(t) /\ tasks[t].stage = "input"
    /\ tasks' = [tasks EXCEPT ![t].stage = IF tasks[t].kind = "single"
                                          THEN "stream" ELSE "next"]
    /\ lastOp' = OtherOp
    /\ UNCHANGED_handlers

\* process_single_conversation lines 48-72, process_group_conversation
\* lines 53-96: start signals and transcription done, the response starts.
\* The transcript of a group conversation begins with the human's input
TaskInput(t) ==
    /\ Running(t) /\ tasks[t].stage = "input"
    /\ tasks' = IF tasks[t].kind = "single"
                THEN [tasks EXCEPT ![t].stage = "stream"]
                ELSE [tasks EXCEPT ![t].stage = "next",
                                   ![t].conversation_history = <<Human>>]
    /\ lastOp' = OtherOp
    /\ UNCHANGED_handlers

\* process_group_conversation lines 99-102 and handle_group_member_turn up
\* to the response: the front of the queue becomes the speaker and is
\* handed conversation_history[memory_index[speaker]:]. The first `logged`
\* turns of the conversation are followed
TaskTurnStart(t, logged) ==
    /\ Running(t) /\ tasks[t].stage = "next"
    /\ tasks[t].group_queue # <<>>
    /\ LET current_member_uid == Head(tasks[t].group_queue)
           follow == Len(tasks[t].served) < logged
           new_messages == Slice(tasks[t].conversation_history,
                                 tasks[t].memory_index[current_member_uid])
           first == Len(tasks[t].conversation_history) - Len(new_messages)
       IN tasks' = [tasks EXCEPT
              ![t].speaker = current_member_uid,
              ![t].group_queue = Tail(@),
              ![t].new_messages = IF follow THEN new_messages ELSE <<>>,
              ![t].shown[current_member_uid] =
                  IF follow
                  THEN @ \o [i \in 1..Len(new_messages) |-> first + i]
                  ELSE @,
              ![t].full_response = FALSE,
              ![t].followed = follow,
              ![t].synth_complete = 0,
              ![t].served = IF follow THEN Append(@, current_member_uid) ELSE @,
              ![t].stage = "stream"]
    /\ lastOp' = OtherOp
    /\ UNCHANGED_handlers

\* handle_sentence_output: one sentence of the agent's output is passed to
\* tts_manager.speak. The sentences of a conversation differ from one
\* another: the display text of a sentence is its position in the output
TaskSpeak(t, bound, empty) ==
    /\ Running(t) /\ tasks[t].stage = "stream"
    /\ tasks[t].spoken < bound
    /\ tasks' = [tasks EXCEPT ![t].spoken = @ + 1,
                              ![t].full_response = tasks[t].followed,
                              ![t].tts[tasks[t].speaker] =
                                  speak(@, empty, tasks[t].spoken)]
    /\ lastOp' = OtherOp
    /\ UNCHANGED_handlers

\* process_agent_response / process_member_response returns;
\* `if tts_manager.task_list:` decides whether the task waits in
\* asyncio.gather. With an empty list a single conversation goes on to
\* finalize_conversation_turn, a group member's turn to its completion
TaskStreamEnd(t) ==
    /\ Running(t) /\ tasks[t].stage = "stream"
    /\ tasks' =
           IF tasks[t].tts[tasks[t].speaker].task_list # {}
           THEN [tasks EXCEPT ![t].stage = "gather"]
           ELSE [tasks EXCEPT ![t].stage = "finalize"]
    /\ lastOp' = OtherOp
    /\ UNCHANGED_handlers

\* asyncio.gather(*tts_manager.task_list) returns: every task of the list
\* has finished, and the caller sends backend-synth-complete
\* (single_conversation.py lines 85-87, group_conversation.py lines 245-247)
TaskGatherDone(t) ==
    /\ Running(t) /\ tasks[t].stage = "gather"
    /\ LET m == tasks[t].tts[tasks[t].speaker]
       IN \A i \in m.task_list : m.synth[i].st = "done"
    /\ tasks' = [tasks EXCEPT ![t].stage = "finalize",
                              ![t].synth_complete = @ + 1]
    /\ lastOp' = [OtherOp EXCEPT !.signals = {"backend-synth-complete"}]
    /\ UNCHANGED_handlers

\* a turn's completion that puts the member at the front of the queue
TurnCompletedToFront(tk) ==
    LET history == IF tk.full_response
                   THEN Append(tk.conversation_history, tk.speaker)
                   ELSE tk.conversation_history
    IN [tk EXCEPT !.conversation_history = history,
                  !.memory_index[tk.speaker] =
                      IF tk.followed THEN Len(history) ELSE @,
                  !.group_queue = <<tk.speaker>> \o @,
                  !.speaker = "",
                  !.new_messages = <<>>,
                  !.full_response = FALSE,
                  !.followed = FALSE,
                  !.stage = "next"]

\* a turn's completion that sets the cursor before the reply is appended
TurnCompletedCursorFirst(tk) ==
    LET history == IF tk.full_response
                   THEN Append(tk.conversation_history, tk.speaker)
                   ELSE tk.conversation_history
    IN [tk EXCEPT !.conversation_history = history,
                  !.memory_index[tk.speaker] =
                      IF tk.followed THEN Len(tk.conversation_history) ELSE @,
                  !.group_queue = Append(@, tk.speaker),
                  !.speaker = "",
                  !.new_messages = <<>>,
                  !.full_response = FALSE,
                  !.followed = FALSE,
                  !.stage = "next"]

\* handle_group_member_turn lines 262-282: a reply that is not empty is
\* appended to the transcript, the member's cursor is set to the length of
\* the transcript and the member is put back into the queue
TurnCompleted(tk) ==
    LET history == IF tk.full_response
                   THEN Append(tk.conversation_history, tk.speaker)
                   ELSE tk.conversation_history
    IN [tk EXCEPT !.conversation_history = history,
                  !.memory_index[tk.speaker] =
                      IF tk.followed THEN Len(history) ELSE @,
                  !.group_queue = Append(@, tk.speaker),
                  !.speaker = "",
                  !.new_messages = <<>>,
                  !.full_response = FALSE,
                  !.followed = FALSE,
                  !.stage = "next"]

\* the control messages finalize_conversation_turn sends to the client of
\* the turn. With synthesis tasks in the list it announces the end of the
\* synthesis and waits for frontend-playback-complete; `response` is what
\* wait_for_response returned, and without one the function returns at once
finalize_conversation_turn(m, response) ==
    IF m.task_list # {}
    THEN IF response
         THEN {"backend-synth-complete", "force-new-message",
               "conversation-chain-end"}
         ELSE {"backend-synth-complete"}
    ELSE {"force-new-message", "conversation-chain-end"}

\* finalize_conversation_turn returns. A single conversation returns and
\* runs its finally block; a group member's turn is completed. The turn of
\* a group member calls finalize_conversation_turn only inside
\* `if tts_manager.task_list:` (group_conversation.py lines 245-260)
TaskTurnEnd(t, response) ==
    /\ Running(t) /\ tasks[t].stage = "finalize"
    /\ LET m == tasks[t].tts[tasks[t].speaker]
           signals == IF tasks[t].kind = "group" /\ m.task_list = {}
                      THEN {}
                      ELSE finalize_conversation_turn(m, response)
       IN IF tasks[t].kind = "single"
          THEN /\ tasks' = remove_state([tasks EXCEPT ![t] = Finally(@, "done")],
                                         tasks[t].state_group_id)
               /\ lastOp' = [Op("task_end", tasks[t].client, tasks[t].key, t,
                                "", FALSE, "done") EXCEPT !.signals = signals]
          ELSE /\ tasks' = [tasks EXCEPT ![t] = TurnCompleted(@)]
               /\ lastOp' = [OtherOp EXCEPT !.signals = signals]
    /\ UNCHANGED_handlers

\* an exception in the task body (recognizer, generator, a failed send).
\* Inside a member's turn it is caught by the loop of
\* process_group_conversation, elsewhere by the outer except clause; both
\* report it first (an await)
TaskError(t) ==
    /\ Running(t) /\ tasks[t].stage \in {"input", "stream", "finalize"}
    /\ tasks' = [tasks EXCEPT ![t].stage =
                     IF tasks[t].kind = "group" /\ tasks[t].stage # "input"
                     THEN "member_error" ELSE "report"]
    /\ lastOp' = OtherOp
    /\ UNCHANGED_handlers

\* except Exception: the error message was sent, the exception is raised
\* again and the finally block runs
TaskErrorReported(t) ==
    /\ Running(t) /\ tasks[t].stage = "report"
    /\ tasks' = remove_state(
                    [tasks EXCEPT ![t] = [Finally(@, "error") EXCEPT !.reported = TRUE]],
                    tasks[t].state_group_id)
    /\ lastOp' = Op("task_end", tasks[t].client, tasks[t].key, t, "", FALSE, "error")
    /\ UNCHANGED_handlers

\* process_group_conversation lines 112-116: handle_member_error returned,
\* the loop goes on; the member was not put back into the queue
TaskMemberErrorHandled(t) ==
    /\ Running(t) /\ tasks[t].stage = "member_error"
    /\ tasks' = [tasks EXCEPT ![t].stage = "next", ![t].speaker = "",
                              ![t].new_messages = <<>>,
                              ![t].full_response = FALSE,
                              ![t].followed = FALSE]
    /\ lastOp' = OtherOp
    /\ UNCHANGED_handlers

\* process_group_conversation: `while state.group_queue:` ends
TaskLoopExit(t) ==
    /\ Running(t) /\ tasks[t].stage = "next"
    /\ tasks[t].group_queue = <<>>
    /\ tasks' = remove_state([tasks EXCEPT ![t] = Finally(@, "done")],
                             tasks[t].state_group_id)
    /\ lastOp' = Op("task_end", tasks[t].client, tasks[t].key, t, "", FALSE, "done")
    /\ UNCHANGED_handlers

\* CancelledError is thrown into the task: except CancelledError: raise,
\* then the finally block. A task suspended in gather is woken once the
\* children gather cancelled have ended
TaskCancelled(t) ==
    /\ t \in TaskIds
    /\ tasks[t].state = "running" /\ tasks[t].must_cancel
    /\ tasks[t].stage = "gather" =>
           LET m == tasks[t].tts[tasks[t].speaker]
           IN m.task_list \cap LiveSynth(m) = {}
    /\ tasks' = remove_state([tasks EXCEPT ![t] = Finally(@, "cancelled")],
                             tasks[t].state_group_id)
    /\ lastOp' = Op("task_end", tasks[t].client, tasks[t].key, t, "", FALSE,
                    "cancelled")
    /\ UNCHANGED_handlers

\* a _process_tts task ends: audio generated, engine failure, cancellation
SynthStep(t, u, i) ==
    /\ t \in TaskIds /\ u \in DOMAIN tasks[t].tts
    /\ i \in DOMAIN tasks[t].tts[u].synth
    /\ \/ /\ tasks[t].tts[u].synth[i].st = "running"
          /\ \/ tasks' = [tasks EXCEPT ![t].tts[u] = process_tts_ok(@, i)]
             \/ tasks' = [tasks EXCEPT ![t].tts[u] = process_tts_fail(@, i)]
       \/ /\ tasks[t].tts[u].synth[i].st = "cancelling"
          /\ tasks' = [tasks EXCEPT ![t].tts[u] = process_tts_cancelled(@, i)]
    /\ lastOp' = OtherOp
    /\ UNCHANGED_handlers

\* a step of _process_payload_queue
DrainerStep(t, u) ==
    /\ t \in TaskIds /\ u \in DOMAIN tasks[t].tts
    /\ \/ /\ tasks[t].tts[u].sender_task = "get"
          /\ tasks[t].tts[u].payload_queue # <<>>
          /\ tasks' = [tasks EXCEPT ![t].tts[u] = drainer_get(@)]
       \/ /\ tasks[t].tts[u].sender_task = "send"
          /\ tasks' = [tasks EXCEPT ![t].tts[u] = drainer_sent(@)]
       \/ /\ tasks[t].tts[u].sender_task = "cancelling"
          /\ tasks' = [tasks EXCEPT ![t].tts[u] = drainer_cancelled(@)]
    /\ lastOp' = OtherOp
    /\ UNCHANGED_handlers

\* ------------------------------------------------------------------------
\* Message handlers (websocket_handler.py, conversation_handler.py)
\* ------------------------------------------------------------------------

Idle == [pc |-> "idle", key |-> NoGroup, task |-> 0]

Waiting(pc, key, task) == [pc |-> pc, key |-> key, task |-> task]

\* what the task map holds for a key: "absent", "live" or "done"
Slot(key) ==
    IF key \notin DOMAIN current_conversation_tasks THEN "absent"
    ELSE IF done(current_conversation_tasks[key]) THEN "done" ELSE "live"

\* WebSocketHandler.handle_new_connection / _store_client_data; a uid is
\* given to one connection only
Connect(c) ==
    /\ handler[c].pc = "new"
    /\ UNCHANGED <<vad, group_update>>
    /\ client_connections' = client_connections \cup {c}
    /\ client_contexts' = client_contexts \cup {c}
    /\ received_data_buffers' = Put(received_data_buffers, c, 0)
    /\ client_group_map' = Put(client_group_map, c, NoGroup)
    /\ handler' = [handler EXCEPT ![c] = Idle]
    /\ lastOp' = OtherOp
    /\ UNCHANGED <<groups, current_conversation_tasks, tasks>>

\* a message loop that answers nothing to an exception of a handler
handle_websocket_communication_silent(status) == {}

\* handle_websocket_communication, after _route_message: what the loop sends
\* before it receives the next message. An exception of the handler, other
\* than WebSocketDisconnect, is answered with a message of type error
handle_websocket_communication(status) ==
    IF status = "raise" THEN {"error"} ELSE {}

\* the types _route_message has no handler for: the missing type and a type
\* that is not in the handler map
UnknownTypes == {"", "unknown"}

\* a _route_message that raises for a message it has no handler for
route_message_raises(c, msg_type) ==
    /\ handler[c].pc = "idle"
    /\ msg_type \in UnknownTypes
    /\ lastOp' = [Op("route", c, NoGroup, 0, msg_type, FALSE, "raise")
                     EXCEPT !.signals = handle_websocket_communication("raise")]
    /\ UNCHANGED <<client_connections, client_contexts, received_data_buffers,
                   client_group_map, groups, current_conversation_tasks,
                   tasks, handler, vad, group_update>>

\* WebSocketHandler._route_message for a message without a type or of a
\* type without a handler: a warning is logged and the function returns
route_message(c, msg_type) ==
    /\ handler[c].pc = "idle"
    /\ msg_type \in UnknownTypes
    /\ lastOp' = [Op("route", c, NoGroup, 0, msg_type, FALSE, "ignored")
                     EXCEPT !.signals = handle_websocket_communication("ignored")]
    /\ UNCHANGED <<client_connections, client_contexts, received_data_buffers,
                   client_group_map, groups, current_conversation_tasks,
                   tasks, handler, vad, group_update>>

\* WebSocketHandler._handle_audio_data
AudioData(c) ==
    /\ handler[c].pc = "idle"
    /\ UNCHANGED <<vad, group_update>>
    /\ received_data_buffers[c] < MaxAudio
    /\ received_data_buffers' = [received_data_buffers EXCEPT ![c] = @ + 1]
    /\ lastOp' = OtherOp
    /\ UNCHANGED <<client_connections, client_contexts, client_group_map,
                   groups, current_conversation_tasks, tasks, handler>>

\* chat_group.handle_group_operation: the registry call and its result
handle_group_operation(c, operation, target_uid) ==
    /\ handler[c].pc = "idle"
    /\ UNCHANGED <<vad, group_update>>
    /\ LET r == IF operation = "add-client-to-group"
                THEN add_client_to_group(client_group_map, groups, c, target_uid)
                ELSE remove_client_from_group(client_group_map, groups, c, target_uid)
       IN /\ client_group_map' = r.cgm
          /\ groups' = r.groups
          /\ lastOp' = [Op(operation, c, NoGroup, 0, target_uid, FALSE, r.status)
                            EXCEPT !.signals = handle_websocket_communication(r.status)]
    /\ UNCHANGED <<client_connections, client_contexts, received_data_buffers,
                   current_conversation_tasks, tasks, handler>>

\* handle_conversation_trigger from the choice of user_input on: the input
\* is taken (mic-audio-end empties the audio buffer), then the task is
\* created under the group's or the client's key; at most cap tasks are
\* created in one behaviour
StartConversation(c, msg_type, cap) ==
    LET group == get_client_group(client_group_map, groups, c)
        grouped == group # NoGroup /\ Cardinality(groups[group].members) > 1
        task_key == IF grouped THEN group ELSE ClientKey(c)
        spawn == ~grouped \/ Slot(task_key) # "live"
        new == Len(tasks) + 1
    IN
    /\ spawn => Len(tasks) < cap
    /\ received_data_buffers' =
           IF msg_type = "mic-audio-end"
           THEN [received_data_buffers EXCEPT ![c] = 0]
           ELSE received_data_buffers
    /\ IF spawn
       THEN /\ \E q \in (IF grouped THEN Perms(groups[group].members) ELSE {<<>>}) :
                   tasks' = IF grouped
                            THEN Append(post_init(tasks, GroupId(c)),
                                     NewGroupTask(task_key, c,
                                                  groups[group].members, q))
                            ELSE Append(tasks, NewSingleTask(c))
            /\ current_conversation_tasks' =
                   Put(current_conversation_tasks, task_key, new)
       ELSE UNCHANGED <<tasks, current_conversation_tasks>>
    /\ lastOp' = Op("trigger", c, task_key,
                    IF spawn THEN new ELSE current_conversation_tasks[task_key],
                    Slot(task_key), spawn, msg_type)
    /\ UNCHANGED <<client_connections, client_contexts, client_group_map, groups,
                   handler>>

\* handle_conversation_trigger. For ai-speak-signal the handler first
\* awaits websocket.send_text; nothing is read or written before that await,
\* so the handler is the step taken when it resumes
handle_conversation_trigger(c, msg_type, cap) ==
    /\ handler[c].pc = "idle"
    /\ UNCHANGED <<vad, group_update>>
    /\ StartConversation(c, msg_type, cap)

\* handle_group_interrupt up to `await task`, for the handler position
\* `wait` to take when it has to wait and `next` when it has not.
\* The key is popped at once when the task is already done
GroupInterruptBegin(c, group_id, wait, next) ==
    IF group_id \notin DOMAIN current_conversation_tasks
    THEN /\ handler' = [handler EXCEPT ![c] = next]
         /\ lastOp' = OtherOp
         /\ UNCHANGED <<current_conversation_tasks, tasks>>
    ELSE LET task == current_conversation_tasks[group_id]
         IN IF ~done(task)
            THEN /\ tasks' = [tasks EXCEPT ![task] = cancel(@)]
                 /\ handler' = [handler EXCEPT ![c] = Waiting(wait, group_id, task)]
                 /\ lastOp' = OtherOp
                 /\ UNCHANGED current_conversation_tasks
            ELSE /\ current_conversation_tasks' =
                        Del(current_conversation_tasks, group_id)
                 /\ handler' = [handler EXCEPT ![c] = next]
                 /\ lastOp' = Op("group_interrupt", c, group_id, task, "done",
                                 FALSE, "")
                 /\ UNCHANGED tasks

\* a handle_group_interrupt that pops the key without waiting for the task
GroupInterruptPopNoWait(c, next) ==
    /\ current_conversation_tasks' =
           Del(current_conversation_tasks, handler[c].key)
    /\ handler' = [handler EXCEPT ![c] = next]
    /\ lastOp' = Op("group_interrupt", c, handler[c].key, handler[c].task,
                    "live", FALSE, "")
    /\ UNCHANGED tasks

\* handle_group_interrupt resumed from `await task`:
\* current_conversation_tasks.pop(group_id, None)
GroupInterruptPop(c, next) ==
    /\ AwaitReady(handler[c].task)
    /\ current_conversation_tasks' =
           Del(current_conversation_tasks, handler[c].key)
    /\ handler' = [handler EXCEPT ![c] = next]
    /\ lastOp' = Op("group_interrupt", c, handler[c].key, handler[c].task,
                    "live", FALSE, "")
    /\ UNCHANGED tasks

\* handle_individual_interrupt: cancel the client's task, wait for it to
\* end, clear the slot
IndividualInterruptBegin(c) ==
    LET key == ClientKey(c)
    IN IF key \notin DOMAIN current_conversation_tasks
       THEN /\ lastOp' = OtherOp
            /\ UNCHANGED <<current_conversation_tasks, tasks, handler>>
       ELSE LET task == current_conversation_tasks[key]
            IN IF ~done(task)
               THEN /\ tasks' = [tasks EXCEPT ![task] = cancel(@)]
                    /\ handler' = [handler EXCEPT ![c] = Waiting("ii_wait", key, task)]
                    /\ lastOp' = OtherOp
                    /\ UNCHANGED current_conversation_tasks
               ELSE /\ current_conversation_tasks' =
                           Del(current_conversation_tasks, key)
                    /\ lastOp' = Op("individual_interrupt", c, key, task,
                                    "done", FALSE, "")
                    /\ UNCHANGED <<tasks, handler>>

\* handle_individual_interrupt resumed once the task has ended
IndividualInterruptPop(c) ==
    /\ handler[c].pc = "ii_wait"
    /\ UNCHANGED <<vad, group_update>>
    /\ AwaitReady(handler[c].task)
    /\ current_conversation_tasks' =
           Del(current_conversation_tasks, handler[c].key)
    /\ handler' = [handler EXCEPT ![c] = Idle]
    /\ lastOp' = Op("individual_interrupt", c, handler[c].key, handler[c].task,
                    "live", FALSE, "")
    /\ UNCHANGED <<client_connections, client_contexts, received_data_buffers,
                   client_group_map, groups, tasks>>

\* WebSocketHandler._handle_interrupt
handle_interrupt(c) ==
    /\ handler[c].pc = "idle"
    /\ UNCHANGED <<vad, group_update>>
    /\ LET group == get_client_group(client_group_map, groups, c)
       IN IF group # NoGroup /\ Cardinality(groups[group].members) > 1
          THEN GroupInterruptBegin(c, group, "gi_wait", Idle)
          ELSE IndividualInterruptBegin(c)
    /\ UNCHANGED <<client_connections, client_contexts, received_data_buffers,
                   client_group_map, groups>>

\* _handle_interrupt resumed inside handle_group_interrupt
InterruptResume(c) ==
    /\ handler[c].pc = "gi_wait"
    /\ UNCHANGED <<vad, group_update>>
    /\ GroupInterruptPop(c, Idle)
    /\ UNCHANGED <<client_connections, client_contexts, received_data_buffers,
                   client_group_map, groups>>

\* broadcast_to_group awaits a send: the group still exists and one of its
\* members is connected
BroadcastAwaits(group_id) ==
    /\ group_id \in DOMAIN groups
    /\ groups[group_id].members \cap client_connections # {}

\* handle_disconnect, the clean-up after handle_client_disconnect: the
\* client's entries are popped; its own task, if any, is cancelled and its
\* key popped without waiting. tm is the task map as left so far
DisconnectCleanup(c, tm) ==
    LET key == ClientKey(c)
    IN
    /\ client_connections' = client_connections \ {c}
    /\ client_contexts' = client_contexts \ {c}
    /\ received_data_buffers' = Del(received_data_buffers, c)
    /\ IF key \in DOMAIN tm
       THEN /\ tasks' = [tasks EXCEPT ![tm[key]] = cancel(@)]
            /\ current_conversation_tasks' = Del(tm, key)
            /\ lastOp' = Op("disconnect", c, key, tm[key],
                            IF done(tm[key]) THEN "done" ELSE "live", FALSE, "")
       ELSE /\ tasks' = tasks
            /\ current_conversation_tasks' = tm
            /\ lastOp' = Op("disconnect", c, key, 0, "absent", FALSE, "")
    /\ handler' = [handler EXCEPT ![c] = Waiting("closed", NoGroup, 0)]

\* chat_group.handle_client_disconnect: remove_client, then the group
\* updates for the members left (awaits); without such a member the
\* clean-up of handle_disconnect follows at once
DisconnectRemove(c, tm) ==
    \E new_owner \in OwnerChoices(client_group_map, groups, c) :
      LET old_group_members == get_group_members(client_group_map, groups, c)
          r == remove_client(client_group_map, groups, c, new_owner)
      IN
      /\ client_group_map' = r.cgm
      /\ groups' = r.groups
      /\ IF (old_group_members \ {c}) \cap client_connections # {}
         THEN /\ handler' = [handler EXCEPT ![c] = Waiting("dc_notify", NoGroup, 0)]
              /\ current_conversation_tasks' = tm
              /\ lastOp' = Op("remove_client", c, NoGroup, 0, "", FALSE, r.status)
              /\ UNCHANGED <<client_connections, client_contexts,
                             received_data_buffers, tasks>>
         ELSE DisconnectCleanup(c, tm)

\* WebSocketHandler.handle_disconnect, called when the client's socket has
\* closed (the message loop ended in receive_json or in a send)
handle_disconnect(c) ==
    /\ handler[c].pc = "idle"
    /\ UNCHANGED <<vad, group_update>>
    /\ LET group == get_client_group(client_group_map, groups, c)
       IN IF group # NoGroup /\ group \in DOMAIN current_conversation_tasks
          THEN IF Slot(group) = "live" \/ BroadcastAwaits(group)
               THEN /\ GroupInterruptBegin(c, group, "dc_wait",
                                           Waiting("dc_bcast", NoGroup, 0))
                    /\ UNCHANGED <<client_connections, client_contexts,
                                   received_data_buffers, client_group_map, groups>>
               ELSE DisconnectRemove(c, Del(current_conversation_tasks, group))
          ELSE DisconnectRemove(c, current_conversation_tasks)

\* handle_disconnect resumed inside handle_group_interrupt
DisconnectResume(c) ==
    /\ handler[c].pc = "dc_wait"
    /\ UNCHANGED <<vad, group_update>>
    /\ IF BroadcastAwaits(handler[c].key)
       THEN /\ GroupInterruptPop(c, Waiting("dc_bcast", NoGroup, 0))
            /\ UNCHANGED <<client_connections, client_contexts,
                           received_data_buffers, client_group_map, groups>>
       ELSE /\ AwaitReady(handler[c].task)
            /\ DisconnectRemove(c, Del(current_conversation_tasks, handler[c].key))

\* handle_disconnect resumed after the broadcast of handle_group_interrupt
DisconnectLeave(c) ==
    /\ handler[c].pc = "dc_bcast"
    /\ UNCHANGED <<vad, group_update>>
    /\ DisconnectRemove(c, current_conversation_tasks)

\* handle_disconnect resumed after the group updates
DisconnectFinish(c) ==
    /\ handler[c].pc = "dc_notify"
    /\ UNCHANGED <<vad, group_update>>
    /\ DisconnectCleanup(c, current_conversation_tasks)
    /\ UNCHANGED <<client_group_map, groups>>

\* vad/silero.py: the voice-activity state machine

\* SileroVADConfig. Probabilities are counted in hundredths
prob_threshold == 40
db_threshold == 60
required_hits == 3
required_misses == 24
smoothing_window == 5
\* `if len(self.probs) > 30`
min_probs == 30
\* self.pre_buffer = deque(maxlen=20)
pre_buffer_maxlen == 20

\* the frames: the probability the classifier returns and the loudness. A
\* frame is voiced and loud, voiced and quiet, unvoiced and loud, or has
\* probability 0 (it is not handed to the state machine)
Frames == {<<90, 80>>, <<90, 30>>, <<10, 80>>, <<0, 30>>}

\* StateMachine.__init__: the configuration is copied. probs is len(self.probs) (probs, dbs and bytes grow
\* together; lengths above min_probs are not told apart), pre_buffer is
\* whether self.pre_buffer holds frames, yielded is what the last call of
\* process yielded;
\* run, prev and onsets are the history of the frames. In a machine whose
\* frames are tracked the frames handed to process are numbered from 1:
\* frame is the number of the last one, bytes and pre_frames are the
\* numbers of the frames held by self.bytes and by self.pre_buffer, segment
\* the numbers of the frames of the segment the last call yielded;
\* onset_frame is the frame of the last onset, idle_start the first frame
\* of the idle period before it, last_end the frame that ended the last
\* utterance
StateMachine(config) ==
    [state |-> "IDLE", hit_count |-> 0, miss_count |-> 0,
     prob_threshold |-> config.prob_threshold,
     db_threshold |-> config.db_threshold,
     required_hits |-> config.required_hits,
     required_misses |-> config.required_misses,
     smoothing_window |-> config.smoothing_window,
     prob_window |-> <<>>, db_window |-> <<>>,
     probs |-> 0, pre_buffer |-> FALSE, yielded |-> <<>>,
     run |-> 0, prev |-> "IDLE", onsets |-> 0,
     last_token |-> "", alternates |-> TRUE,
     tracked |-> FALSE, frame |-> 0, bytes |-> <<>>, pre_frames |-> <<>>,
     segment |-> <<>>, onset_frame |-> 0, idle_start |-> 1, last_end |-> 0]

\* the defaults of SileroVADConfig
SileroVADConfig ==
    [prob_threshold |-> prob_threshold, db_threshold |-> db_threshold,
     required_hits |-> required_hits, required_misses |-> required_misses,
     smoothing_window |-> smoothing_window]

\* the state machine of an engine built with the default configuration
NewStateMachine == StateMachine(SileroVADConfig)

RECURSIVE Sum(_)
Sum(list) == IF list = <<>> THEN 0 ELSE Head(list) + Sum(Tail(list))

\* deque(maxlen=n).append
DequeAppend(window, x, n) ==
    IF Len(window) < n THEN Append(window, x) ELSE Append(Tail(window), x)

\* np.mean(window) >= threshold
MeanAtLeast(window, threshold) == Sum(window) >= threshold * Len(window)

\* StateMachine.update
update(sm) ==
    [sm EXCEPT !.probs = IF @ > min_probs THEN @ ELSE @ + 1,
               !.bytes = IF sm.tracked THEN Append(@, sm.frame) ELSE @]

\* both smoothed values of the frame processed last are at or above their
\* thresholds
Hit(sm) ==
    /\ MeanAtLeast(sm.prob_window, sm.prob_threshold)
    /\ MeanAtLeast(sm.db_window, sm.db_threshold)

\* the IDLE branch leaving IDLE on the first hit
process_idle_first_hit(w) ==
    LET b == [w EXCEPT !.pre_buffer = TRUE]
    IN IF Hit(w)
       THEN [update(b) EXCEPT !.state = "ACTIVE", !.hit_count = 0,
                              !.yielded = <<"PAUSE">>]
       ELSE [b EXCEPT !.hit_count = 0]

\* StateMachine.process lines 135-148, the IDLE branch: the frame goes to
\* the pre-roll buffer, hits are counted, a miss restarts the count
process_idle(w) ==
    LET b == [w EXCEPT !.pre_buffer = TRUE,
                       !.pre_frames =
                           IF w.tracked
                           THEN DequeAppend(@, w.frame, pre_buffer_maxlen)
                           ELSE @]
    IN IF Hit(w)
       THEN IF b.hit_count + 1 >= w.required_hits
            THEN [update(b) EXCEPT !.state = "ACTIVE", !.hit_count = 0,
                                   !.yielded = <<"PAUSE">>,
                                   !.onset_frame = w.frame,
                                   !.idle_start = w.last_end + 1]
            ELSE [b EXCEPT !.hit_count = @ + 1]
       ELSE [b EXCEPT !.hit_count = 0]

\* the ACTIVE branch leaving ACTIVE one miss late
process_active_late(w) ==
    LET u == update(w)
    IN IF Hit(w)
       THEN [u EXCEPT !.miss_count = 0]
       ELSE IF u.miss_count + 1 > w.required_misses
            THEN [u EXCEPT !.state = "INACTIVE", !.miss_count = 0]
            ELSE [u EXCEPT !.miss_count = @ + 1]

\* StateMachine.process lines 150-161, the ACTIVE branch
process_active(w) ==
    LET u == update(w)
    IN IF Hit(w)
       THEN [u EXCEPT !.miss_count = 0]
       ELSE IF u.miss_count + 1 >= w.required_misses
            THEN [u EXCEPT !.state = "INACTIVE", !.miss_count = 0]
            ELSE [u EXCEPT !.miss_count = @ + 1]

\* the INACTIVE branch returning to IDLE without a token
process_inactive_silent_end(w) ==
    LET u == update(w)
    IN IF Hit(w)
       THEN IF u.hit_count + 1 >= w.required_hits
            THEN [u EXCEPT !.state = "ACTIVE", !.hit_count = 0,
                           !.miss_count = 0]
            ELSE [u EXCEPT !.hit_count = @ + 1]
       ELSE IF u.miss_count + 1 >= w.required_misses
            THEN [u EXCEPT !.state = "IDLE", !.hit_count = 0,
                           !.miss_count = 0,
                           !.probs = IF u.probs > min_probs THEN 0 ELSE @,
                           !.pre_buffer = FALSE]
            ELSE [u EXCEPT !.hit_count = 0, !.miss_count = @ + 1]

\* the INACTIVE branch returning to ACTIVE on the first hit
process_inactive_first_hit(w) ==
    LET u == update(w)
    IN IF Hit(w)
       THEN [u EXCEPT !.state = "ACTIVE", !.hit_count = 0, !.miss_count = 0]
       ELSE IF u.miss_count + 1 >= w.required_misses
            THEN [u EXCEPT !.state = "IDLE", !.hit_count = 0,
                           !.miss_count = 0,
                           !.probs = IF u.probs > min_probs THEN 0 ELSE @,
                           !.pre_buffer = FALSE,
                           !.yielded = IF u.probs > min_probs
                                       THEN <<"RESUME", "SEGMENT">>
                                       ELSE <<"RESUME">>]
            ELSE [u EXCEPT !.hit_count = 0, !.miss_count = @ + 1]

\* StateMachine.process lines 163-185, the INACTIVE branch: hits in a row
\* lead back to ACTIVE, the misses add up to the end of the utterance; the
\* buffers are emitted and reset when more than min_probs frames were
\* buffered
process_inactive(w) ==
    LET u == update(w)
    IN IF Hit(w)
       THEN IF u.hit_count + 1 >= w.required_hits
            THEN [u EXCEPT !.state = "ACTIVE", !.hit_count = 0,
                           !.miss_count = 0]
            ELSE [u EXCEPT !.hit_count = @ + 1]
       ELSE IF u.miss_count + 1 >= w.required_misses
            THEN [u EXCEPT !.state = "IDLE", !.hit_count = 0,
                           !.miss_count = 0,
                           !.probs = IF u.probs > min_probs THEN 0 ELSE @,
                           !.pre_buffer = FALSE,
                           !.segment = IF u.probs > min_probs
                                       THEN u.pre_frames \o u.bytes ELSE <<>>,
                           !.bytes = IF u.probs > min_probs THEN <<>> ELSE @,
                           !.pre_frames = <<>>,
                           !.last_end = w.frame,
                           !.yielded = IF u.probs > min_probs
                                       THEN <<"RESUME", "SEGMENT">>
                                       ELSE <<"RESUME">>]
            ELSE [u EXCEPT !.hit_count = 0, !.miss_count = @ + 1]

\* StateMachine.process: get_smoothed_values, then the branch of the state
process(sm, prob, db) ==
    LET w == [sm EXCEPT !.prob_window = DequeAppend(@, prob, sm.smoothing_window),
                        !.db_window = DequeAppend(@, db, sm.smoothing_window),
                        !.yielded = <<>>,
                        !.segment = <<>>,
                        !.frame = IF sm.tracked THEN @ + 1 ELSE @]
    IN IF sm.state = "IDLE" THEN process_idle(w)
       ELSE IF sm.state = "ACTIVE" THEN process_active(w)
       ELSE process_inactive(w)

\* the history of the frames: while IDLE or INACTIVE the number of hits in a
\* row, while ACTIVE the number of misses in a row, counted from the frame
\* after the one that brought the machine into its state; prev is the state
\* before the last frame, onsets the number of times ACTIVE was entered
\* from IDLE. last_token is the control token yielded last, alternates
\* tells whether the control tokens yielded so far began with PAUSE and no
\* token was followed by the same token
Observe(sm, after) ==
    LET hit == Hit(after)
        counted == IF sm.state = "ACTIVE" THEN ~hit ELSE hit
        control == SelectSeq(after.yielded, LAMBDA y : y \in {"PAUSE", "RESUME"})
        expected == IF sm.last_token = "PAUSE" THEN "RESUME" ELSE "PAUSE"
    IN [after EXCEPT
           !.last_token = IF control = <<>> THEN @ ELSE control[Len(control)],
           !.alternates = /\ @
                          /\ Len(control) <= 1
                          /\ control # <<>> => control[1] = expected,
           !.run = IF after.state # sm.state \/ ~counted THEN 0
                   ELSE IF sm.run < sm.required_misses THEN sm.run + 1 ELSE sm.run,
           !.prev = sm.state,
           !.onsets = IF sm.state = "IDLE" /\ after.state = "ACTIVE" /\ @ < MaxOnsets
                      THEN @ + 1 ELSE @]

\* VADEngine.detect_speech for one frame: a frame whose probability is 0 is
\* skipped, any other frame goes through StateMachine.process
detect_speech(speech_prob, db) ==
    /\ vad' = IF speech_prob = 0 THEN vad
              ELSE Observe(vad, process(vad, speech_prob, db))
    /\ UNCHANGED <<client_connections, client_contexts, received_data_buffers,
                   client_group_map, groups, current_conversation_tasks,
                   tasks, handler, lastOp, group_update>>

\* ------------------------------------------------------------------------
\* Broadcasts of a group conversation (chat_group.broadcast_to_group)
\* ------------------------------------------------------------------------

\* the group_members a group conversation was created with:
\* handle_conversation_trigger passes group.members, the set object of the
\* group itself. A group taken out of the registry leaves its set empty
live_group_members(t) ==
    IF tasks[t].key \in DOMAIN groups
    THEN groups[tasks[t].key].members
    ELSE {}

\* `for member_uid in group_members:` from one suspension to the next. The
\* iterator of a set raises RuntimeError when the size of the set is not the
\* one it was created with. Otherwise the loop passes the members it does
\* not send to and is suspended in the send_text to member_uid, or ends when
\* no member is left
broadcast_next(b, live, connections, member_uid) ==
    LET rest == live \ b.visited
        recipients == {m \in rest : m # b.exclude_uid /\ m \in connections}
    IN IF Cardinality(live) # b.used
       THEN [b EXCEPT !.it = "raised"]
       ELSE IF recipients = {}
            THEN [b EXCEPT !.it = "done", !.visited = @ \union rest]
            ELSE [b EXCEPT !.it = "iter",
                           !.visited = @ \union (rest \ recipients)
                                         \union {member_uid},
                           !.sent = @ \union {member_uid}]

\* the members the loop may send to next: a set is iterated in any order
broadcast_choices(b, live, connections) ==
    LET recipients == {m \in live \ b.visited :
                          m # b.exclude_uid /\ m \in connections}
    IN IF Cardinality(live) # b.used \/ recipients = {}
       THEN {""}
       ELSE recipients

\* a RuntimeError of the broadcast leaves process_group_input and is caught
\* by the outer except clause of process_group_conversation
BroadcastStage(tk, b) ==
    [tk EXCEPT !.broadcast = b,
               !.stage = IF b.it = "raised" THEN "report" ELSE @]

\* process_group_input: broadcast_transcription calls broadcast_to_group
\* with group_members and exclude_uid = the initiator; the call runs to its
\* first send_text
broadcast_to_group(t) ==
    /\ Running(t) /\ tasks[t].kind = "group" /\ tasks[t].stage = "input"
    /\ tasks[t].broadcast.it = "none"
    /\ LET live == live_group_members(t)
           b == [NoBroadcast EXCEPT !.it = "iter",
                                    !.used = Cardinality(live),
                                    !.snapshot = live,
                                    !.exclude_uid = tasks[t].client]
       IN \E member_uid \in broadcast_choices(b, live, client_connections) :
              tasks' = [tasks EXCEPT ![t] =
                           BroadcastStage(@, broadcast_next(b, live,
                                              client_connections, member_uid))]
    /\ lastOp' = OtherOp
    /\ UNCHANGED_handlers

\* the send_text the broadcast was suspended in returns (or raises, which
\* is logged): the loop goes on
BroadcastResume(t) ==
    /\ Running(t) /\ tasks[t].broadcast.it = "iter"
    /\ LET live == live_group_members(t)
           b == tasks[t].broadcast
       IN \E member_uid \in broadcast_choices(b, live, client_connections) :
              tasks' = [tasks EXCEPT ![t] =
                           BroadcastStage(@, broadcast_next(b, live,
                                              client_connections, member_uid))]
    /\ lastOp' = OtherOp
    /\ UNCHANGED_handlers

\* ------------------------------------------------------------------------
\* Group operations step by step (chat_group.handle_group_operation)
\* ------------------------------------------------------------------------

\* no group-update was received. owed records that a successful group
\* operation has affected the client and no group-update was sent to it
\* since
NoView == [received |-> FALSE, members |-> {}, is_owner |-> FALSE,
           owed |-> FALSE]

\* no group operation of the client is in progress. While one is, pc is
\* where it is suspended, all_affected the local set of that name and
\* pending what is left of its loop
NoOperation ==
    [pc |-> "none", operation |-> "", target_uid |-> "", all_affected |-> {},
     pending |-> {}]

NoGroupUpdate ==
    [view |-> [c \in AllClients |-> NoView],
     op |-> [c \in AllClients |-> NoOperation]]

\* the group-update WebSocketHandler.send_group_update builds for a client
send_group_update(cgm, grps, client_uid) ==
    LET group == get_client_group(cgm, grps, client_uid)
    IN IF group # NoGroup
       THEN [received |-> TRUE,
             members |-> get_group_members(cgm, grps, client_uid),
             is_owner |-> grps[group].owner_uid = client_uid,
             owed |-> FALSE]
       ELSE [received |-> TRUE, members |-> {}, is_owner |-> FALSE,
             owed |-> FALSE]

\* the operation o of client c sends member_uid its group-update and is
\* suspended in the send
UpdateSent(c, o, member_uid, pc, view, cgm, grps) ==
    group_update' =
        [view |-> [view EXCEPT
                       ![member_uid] = send_group_update(cgm, grps, member_uid)],
         op |-> [group_update.op EXCEPT
                     ![c] = [o EXCEPT !.pc = pc,
                                      !.pending = @ \ {member_uid}]]]

\* handle_group_operation returns
OperationReturns(c) ==
    group_update' = [group_update EXCEPT !.op[c] = NoOperation]

\* `for member_uid in all_affected_members:` from one suspension to the
\* next: the members that are not connected are passed, the next one is
\* sent its group-update, and without one the handler returns
UpdateLoop(c, o) ==
    LET candidates == {m \in o.pending : m \in client_connections}
    IN IF candidates = {}
       THEN OperationReturns(c)
       ELSE \E member_uid \in candidates :
                UpdateSent(c, [o EXCEPT !.pending = candidates], member_uid,
                           "loop", group_update.view, client_group_map, groups)

\* new_members = get_group_members(client_uid); all_affected_members is
\* completed and the loop over it begins: from here on the set is followed
\* as what is left of the loop. The target is passed by the loop
UpdateMembers(c, o) ==
    LET new_members == get_group_members(client_group_map, groups, c)
        all_affected == o.all_affected \union new_members
    IN UpdateLoop(c, [o EXCEPT !.all_affected = {},
                               !.pending = all_affected \ {o.target_uid}])

\* handle_group_operation up to its first suspension: the members before
\* the operation are read, the registry is changed, and a group-update (to
\* the member invited) or the result (to the initiator) is sent. A failed
\* operation sends its result and returns
GroupOperationBegin(c, operation, target_uid) ==
    /\ handler[c].pc = "idle"
    /\ group_update.op[c].pc = "none"
    /\ LET old_members == get_group_members(client_group_map, groups, c)
           target_old_members ==
               get_group_members(client_group_map, groups, target_uid)
           r == IF operation = "add-client-to-group"
                THEN add_client_to_group(client_group_map, groups, c, target_uid)
                ELSE remove_client_from_group(client_group_map, groups, c, target_uid)
           o == [NoOperation EXCEPT
                    !.operation = operation,
                    !.target_uid = target_uid,
                    !.all_affected = old_members \union target_old_members]
           affected == {c, target_uid} \union old_members
                           \union target_old_members
                           \union get_group_members(r.cgm, r.groups, c)
                           \union get_group_members(r.cgm, r.groups, target_uid)
           view == [m \in AllClients |->
                       IF m \in affected
                       THEN [group_update.view[m] EXCEPT !.owed = TRUE]
                       ELSE group_update.view[m]]
       IN /\ client_group_map' = r.cgm
          /\ groups' = r.groups
          /\ lastOp' = [Op(operation, c, NoGroup, 0, target_uid, FALSE, r.status)
                            EXCEPT !.signals = handle_websocket_communication(r.status)]
          /\ IF r.status # "ok"
             THEN UNCHANGED group_update
             ELSE IF operation = "add-client-to-group"
                     /\ target_uid \in client_connections
             THEN UpdateSent(c, o, target_uid, "members", view,
                             r.cgm, r.groups)
             ELSE group_update' =
                      [view |-> view,
                       op |-> [group_update.op EXCEPT
                                   ![c] = [o EXCEPT !.pc =
                                       IF operation = "add-client-to-group"
                                       THEN "members" ELSE "target"]]]
    /\ UNCHANGED <<client_connections, client_contexts, received_data_buffers,
                   current_conversation_tasks, tasks, handler, vad>>

\* handle_group_operation resumed from a send
GroupOperationResume(c) ==
    /\ group_update.op[c].pc # "none"
    /\ LET o == group_update.op[c]
       IN IF o.pc = "target" /\ o.target_uid \in client_connections
          THEN UpdateSent(c, o, o.target_uid, "members", group_update.view,
                          client_group_map, groups)
          ELSE IF o.pc \in {"target", "members"}
          THEN UpdateMembers(c, o)
          ELSE UpdateLoop(c, o)
    /\ lastOp' = OtherOp
    /\ UNCHANGED <<client_connections, client_contexts, received_data_buffers,
                   client_group_map, groups, current_conversation_tasks,
                   tasks, handler, vad>>

\* ------------------------------------------------------------------------
\* Specifications
\* ------------------------------------------------------------------------

MsgTypes == {"text-input", "mic-audio-end", "ai-speak-signal"}
GroupOps == {"add-client-to-group", "remove-client-from-group"}

\* WebSocketHandler.__init__, ChatGroupManager.__init__
Init ==
    /\ client_connections = {}
    /\ client_contexts = {}
    /\ received_data_buffers = EmptyDict
    /\ client_group_map = EmptyDict
    /\ groups = EmptyDict
    /\ current_conversation_tasks = EmptyDict
    /\ tasks = <<>>
    /\ handler = [c \in AllClients |-> Waiting("new", NoGroup, 0)]
    /\ lastOp = OtherOp
    /\ vad = NewStateMachine
    /\ group_update = NoGroupUpdate

\* the steps of a conversation task outside its turns
TaskBody(t) ==
    \/ TaskInput(t)
    \/ TaskStreamEnd(t)
    \/ \E response \in BOOLEAN : TaskTurnEnd(t, response)
    \/ TaskError(t)
    \/ TaskErrorReported(t)
    \/ TaskCancelled(t)

\* the rotation of process_group_conversation
GroupBody(t, logged) ==
    \/ TaskTurnStart(t, logged)
    \/ TaskMemberErrorHandled(t)
    \/ TaskLoopExit(t)

\* the fragments of a task, at most `bound` of them: speak(), the synthesis
\* tasks, the drainers and the gather that waits for the synthesis tasks
TTSBody(t, bound, empties) ==
    \/ \E empty \in empties : TaskSpeak(t, bound, empty)
    \/ TaskGatherDone(t)
    \/ \E u \in Clients :
           \/ \E i \in 0..(bound - 1) : SynthStep(t, u, i)
           \/ DrainerStep(t, u)

\* the conversation messages of the clients cs: triggers and interrupts
ConversationNext(cs, cap) ==
    \E c \in cs :
        \/ \E msg_type \in MsgTypes : handle_conversation_trigger(c, msg_type, cap)
        \/ handle_interrupt(c)
        \/ InterruptResume(c)
        \/ IndividualInterruptPop(c)

\* the disconnections of the clients cs
DisconnectNext(cs) ==
    \E c \in cs :
        \/ handle_disconnect(c)
        \/ DisconnectResume(c)
        \/ DisconnectLeave(c)
        \/ DisconnectFinish(c)

\* A and B are connected, and either A has invited B (the group of A holds
\* both) or no group operation has taken place
InitConnected ==
    /\ client_connections = {"A", "B"}
    /\ client_contexts = {"A", "B"}
    /\ received_data_buffers = [c \in {"A", "B"} |-> 0]
    /\ \/ /\ client_group_map = [c \in {"A", "B"} |-> GroupId("A")]
          /\ groups = Put(EmptyDict, GroupId("A"), Group("A", {"A", "B"}))
       \/ /\ client_group_map = [c \in {"A", "B"} |-> NoGroup]
          /\ groups = EmptyDict
    /\ current_conversation_tasks = EmptyDict
    /\ tasks = <<>>
    /\ handler = [c \in AllClients |->
                     IF c \in {"A", "B"} THEN Idle ELSE Waiting("new", NoGroup, 0)]
    /\ lastOp = OtherOp
    /\ vad = NewStateMachine
    /\ group_update = NoGroupUpdate

\* the scheduler: the conversations of two clients, whose agents produce
\* no sentence (no fragment is synthesized)
Next ==
    \/ ConversationNext(Clients, MaxTasks)
    \/ DisconnectNext(Clients)
    \/ \E t \in 1..MaxTasks : TaskBody(t) \/ GroupBody(t, 0)

Spec == InitConnected /\ [][Next]_vars

\* one conversation of two clients with the audio they send, its synthesis
\* tasks and its drainers
NextCancel ==
    \/ \E c \in Clients : AudioData(c)
    \/ ConversationNext(Clients, 1)
    \/ DisconnectNext(Clients)
    \/ TaskBody(1) \/ GroupBody(1, 0) \/ TTSBody(1, MaxFragSched, {FALSE})

SpecCancel == InitConnected /\ [][NextCancel]_vars

\* the registry alone: connections, group operations and disconnections
NextReg ==
    \E c \in RegClients :
        \/ Connect(c)
        \/ \E operation \in GroupOps, target_uid \in RegClients :
               handle_group_operation(c, operation, target_uid)
        \/ \E msg_type \in UnknownTypes : route_message(c, msg_type)
        \/ handle_disconnect(c)
        \/ DisconnectFinish(c)

SpecReg == Init /\ [][NextReg]_vars

\* one conversation of one client: the state after the client's first
\* text-input
InitTTS ==
    /\ client_connections = {"A"}
    /\ client_contexts = {"A"}
    /\ received_data_buffers = Put(EmptyDict, "A", 0)
    /\ client_group_map = Put(EmptyDict, "A", NoGroup)
    /\ groups = EmptyDict
    /\ current_conversation_tasks = Put(EmptyDict, ClientKey("A"), 1)
    /\ tasks = <<NewSingleTask("A")>>
    /\ handler = [c \in AllClients |->
                     IF c = "A" THEN Idle ELSE Waiting("new", NoGroup, 0)]
    /\ lastOp = OtherOp
    /\ vad = NewStateMachine
    /\ group_update = NoGroupUpdate

NextTTS ==
    \/ TaskBody(1)
    \/ TTSBody(1, MaxFrag, BOOLEAN)
    \/ handle_disconnect("A")

SpecTTS == InitTTS /\ [][NextTTS]_vars

\* one group conversation of three clients: the state after A, the owner of
\* a group of A, B and C, has sent its first text-input. list(group_members)
\* is built from a set, the queue starts in any order
InitRot ==
    /\ client_connections = RegClients
    /\ client_contexts = RegClients
    /\ received_data_buffers = [c \in RegClients |-> 0]
    /\ client_group_map = [c \in RegClients |-> GroupId("A")]
    /\ groups = Put(EmptyDict, GroupId("A"), Group("A", RegClients))
    /\ current_conversation_tasks = Put(EmptyDict, GroupId("A"), 1)
    /\ \E queue \in Perms(RegClients) :
           tasks = <<NewGroupTask(GroupId("A"), "A", RegClients, queue)>>
    /\ handler = [c \in AllClients |-> Idle]
    /\ lastOp = OtherOp
    /\ vad = NewStateMachine
    /\ group_update = NoGroupUpdate

\* the rotation, the sentences of the members (no audio is synthesized) and
\* the interrupt of the owner
NextRot ==
    \/ TaskBody(1)
    \/ GroupBody(1, MaxTurns)
    \/ TaskSpeak(1, MaxReplies, TRUE)
    \/ handle_interrupt("A") \/ InterruptResume("A")

SpecRot == InitRot /\ [][NextRot]_vars

\* the state machine of one engine fed frame by frame
NextVAD == \E frame \in Frames : detect_speech(frame[1], frame[2])

SpecVAD == Init /\ [][NextVAD]_vars

\* the configurations with short counts and windows; the thresholds are the
\* defaults
Configs ==
    {[SileroVADConfig EXCEPT !.required_hits = h, !.required_misses = m,
                             !.smoothing_window = k] :
         h \in 1..MaxHits, m \in 1..MaxMisses, k \in 1..MaxWindow}

\* an engine built with one of the short configurations
InitConfigured ==
    /\ client_connections = {}
    /\ client_contexts = {}
    /\ received_data_buffers = EmptyDict
    /\ client_group_map = EmptyDict
    /\ groups = EmptyDict
    /\ current_conversation_tasks = EmptyDict
    /\ tasks = <<>>
    /\ handler = [c \in AllClients |-> Waiting("new", NoGroup, 0)]
    /\ lastOp = OtherOp
    /\ \E config \in Configs : vad = StateMachine(config)
    /\ group_update = NoGroupUpdate

SpecVADConfigured == InitConfigured /\ [][NextVAD]_vars

\* the short configuration without smoothing
FrameConfig ==
    [SileroVADConfig EXCEPT !.required_hits = MaxHits,
                            !.required_misses = MaxMisses,
                            !.smoothing_window = 1]

\* an engine built with the short configuration whose frames are tracked
\* through the buffers
InitFrames ==
    /\ client_connections = {}
    /\ client_contexts = {}
    /\ received_data_buffers = EmptyDict
    /\ client_group_map = EmptyDict
    /\ groups = EmptyDict
    /\ current_conversation_tasks = EmptyDict
    /\ tasks = <<>>
    /\ handler = [c \in AllClients |-> Waiting("new", NoGroup, 0)]
    /\ lastOp = OtherOp
    /\ vad = [StateMachine(FrameConfig) EXCEPT !.tracked = TRUE]
    /\ group_update = NoGroupUpdate

\* the first MaxFrames frames of the engine, up to the end of utterance
\* MaxOnsets
NextFrames ==
    /\ vad.frame < MaxFrames
    /\ vad.onsets < MaxOnsets \/ vad.state # "IDLE"
    /\ NextVAD

SpecFrames == InitFrames /\ [][NextFrames]_vars

\* the clients whose group operations arrive during the broadcast
Inviters == {"B", "C"}

\* A, the owner of a group of A and B, has sent a text-input and the group
\* conversation was created; C is connected and in no group
InitBroadcast ==
    /\ client_connections = RegClients
    /\ client_contexts = RegClients
    /\ received_data_buffers = [c \in RegClients |-> 0]
    /\ client_group_map = [c \in RegClients |->
                              IF c = "C" THEN NoGroup ELSE GroupId("A")]
    /\ groups = Put(EmptyDict, GroupId("A"), Group("A", {"A", "B"}))
    /\ current_conversation_tasks = Put(EmptyDict, GroupId("A"), 1)
    /\ \E queue \in Perms({"A", "B"}) :
           tasks = <<NewGroupTask(GroupId("A"), "A", {"A", "B"}, queue)>>
    /\ handler = [c \in AllClients |-> Idle]
    /\ lastOp = OtherOp
    /\ vad = NewStateMachine
    /\ group_update = NoGroupUpdate

\* the broadcast of the transcription, and the group operations of B and C
\* handled meanwhile; the RuntimeError of a broadcast ends the conversation
NextBroadcast ==
    \/ broadcast_to_group(1)
    \/ BroadcastResume(1)
    \/ TaskErrorReported(1)
    \/ \E c \in Inviters, operation \in GroupOps, target_uid \in RegClients :
           handle_group_operation(c, operation, target_uid)

SpecBroadcast == InitBroadcast /\ [][NextBroadcast]_vars

\* three clients are connected, none is in a group; each was sent its
\* group-update when it connected
InitUpdates ==
    /\ client_connections = RegClients
    /\ client_contexts = RegClients
    /\ received_data_buffers = [c \in RegClients |-> 0]
    /\ client_group_map = [c \in RegClients |-> NoGroup]
    /\ groups = EmptyDict
    /\ current_conversation_tasks = EmptyDict
    /\ tasks = <<>>
    /\ handler = [c \in AllClients |-> Idle]
    /\ lastOp = OtherOp
    /\ vad = NewStateMachine
    /\ group_update =
           [NoGroupUpdate EXCEPT
                !.view = [c \in AllClients |->
                             IF c \in RegClients
                             THEN send_group_update(client_group_map, groups, c)
                             ELSE NoView]]

\* the clients that send group operations
Initiators == {"A", "B"}

\* the group operations of A and B on the three clients, each suspended in
\* its sends while the other's is handled
NextUpdates ==
    \E c \in Initiators :
        \/ \E operation \in GroupOps, target_uid \in RegClients :
               GroupOperationBegin(c, operation, target_uid)
        \/ GroupOperationResume(c)

SpecUpdates == InitUpdates /\ [][NextUpdates]_vars

\* a group conversation of three clients while the membership changes: the
\* rotation (no sentence is produced), the group operations of the clients
\* and their disconnections
\* the clients that disconnect
Leavers == {"B", "C"}

NextMembers ==
    \/ TaskBody(1)
    \/ GroupBody(1, 0)
    \/ \E c \in Initiators, operation \in GroupOps, target_uid \in RegClients :
           handle_group_operation(c, operation, target_uid)
    \/ DisconnectNext(Leavers)

SpecMembers == InitRot /\ [][NextMembers]_vars

\* ------------------------------------------------------------------------
\* Properties
\* ------------------------------------------------------------------------

\* every TTSTaskManager of every conversation task
Managers == {<<t, u>> : t \in TaskIds, u \in AllClients} \cap
            {x \in TaskIds \X AllClients : x[2] \in DOMAIN tasks[x[1]].tts}

Manager(x) == tasks[x[1]].tts[x[2]]

\* C1: the payloads a TTSTaskManager has passed to websocket_send carry the
\* sequence numbers 0, 1, 2, ... in this order, without gap or repetition,
\* whatever the order in which the synthesis tasks queued them
C1_SentInSequenceOrder ==
    \A x \in Managers :
        \A i \in 1..Len(Manager(x).sent) : Manager(x).sent[i].seq = i - 1

\* the payloads were queued in an order that is not the submission order
\* and all of them have been sent
C1_Witness ==
    \E x \in Managers :
        LET m == Manager(x)
        IN /\ Len(m.sent) = MaxFrag
           /\ \E i, j \in 1..Len(m.arrivals) :
                  i < j /\ m.arrivals[i] > m.arrivals[j]

\* C4: a fragment whose synthesis raised is queued, and sent, as the silent
\* payload with the fragment's own sequence number and display text; the
\* fragments after it are sent right after it, and once every synthesis
\* task has ended and the drainer has emptied the queue everything
\* submitted has been sent
C4_FailureSubstitutesSilence ==
    \A x \in Managers :
        LET m == Manager(x)
            Silent(p) == /\ ~p.audio
                         /\ p.text = m.fragments[p.seq + 1].text
        IN /\ \A i \in 1..Len(m.sent) :
                  m.sent[i].seq \in m.failed => Silent(m.sent[i])
           /\ \A i \in 1..Len(m.payload_queue) :
                  m.payload_queue[i].seq \in m.failed => Silent(m.payload_queue[i])
           /\ \A k \in DOMAIN m.buffered_payloads :
                  k \in m.failed => Silent(m.buffered_payloads[k])
           /\ \A i \in 1..(Len(m.sent) - 1) :
                  m.sent[i].seq \in m.failed =>
                      m.sent[i + 1].seq = m.sent[i].seq + 1
           /\ ( /\ m.sender_task = "get"
                /\ m.payload_queue = <<>>
                /\ \A i \in DOMAIN m.synth : m.synth[i].st = "done" )
              => Len(m.sent) = m.sequence_counter

\* the synthesis of a fragment raised, and the fragment after it has been
\* sent behind its silent payload
C4_Witness ==
    \E x \in Managers :
        LET m == Manager(x)
        IN \E i \in 1..(Len(m.sent) - 1) :
               /\ m.sent[i].seq \in m.failed
               /\ ~m.sent[i].audio
               /\ m.sent[i + 1].audio

\* the conversation tasks created under a key that have not terminated
LiveTasks(key) == {t \in TaskIds : tasks[t].key = key /\ ~done(t)}

\* C2: for each scheduling key, at most one conversation task that has not
\* terminated exists
C2_OneLiveTaskPerKey ==
    \A t \in TaskIds : Cardinality(LiveTasks(tasks[t].key)) <= 1

\* C3: for every client c, get_group_members(c) is empty or contains c,
\* and c is in the member set of at most one group
C3_MapAndMembersAgree ==
    \A c \in AllClients :
        LET members == get_group_members(client_group_map, groups, c)
        IN /\ members = {} \/ c \in members
           /\ Cardinality({g \in DOMAIN groups : c \in groups[g].members}) <= 1

\* C5: a trigger for a key whose task is live changes nothing: no task is
\* created, the task map, the tasks and the audio buffers are as before
C5_TriggerOnLiveKeyIsNoOp ==
    [][ (lastOp'.op = "trigger" /\ lastOp'.prior = "live") =>
            /\ ~lastOp'.spawned
            /\ tasks' = tasks
            /\ current_conversation_tasks' = current_conversation_tasks
            /\ received_data_buffers' = received_data_buffers ]_vars

\* the handler of client c is suspended in the `await task` of
\* handle_group_interrupt
InAwaitTask(h) == h.pc \in {"gi_wait", "dc_wait"}

\* C6: handle_group_interrupt for a key whose task is running cancels that
\* task and suspends; when it resumes the task has terminated and the key
\* is out of the task map; and a trigger for a key that has no live task
\* creates a running task and stores it under the key
C6_InterruptClearsSlot ==
    [][ /\ \A c \in Clients :
            /\ (~InAwaitTask(handler[c]) /\ InAwaitTask(handler'[c])) =>
                   /\ Slot(handler'[c].key) = "live"
                   /\ current_conversation_tasks[handler'[c].key] = handler'[c].task
                   /\ tasks'[handler'[c].task].must_cancel
            /\ (InAwaitTask(handler[c]) /\ ~InAwaitTask(handler'[c])) =>
                   /\ tasks[handler[c].task].state \in Terminal
                   /\ tasks'[handler[c].task].state \in Terminal
                   /\ handler[c].key \notin DOMAIN current_conversation_tasks'
        /\ (lastOp'.op = "trigger" /\ lastOp'.prior # "live") =>
               /\ lastOp'.spawned
               /\ Len(tasks') = Len(tasks) + 1
               /\ tasks'[Len(tasks')].state = "running"
               /\ lastOp'.key \in DOMAIN current_conversation_tasks'
               /\ current_conversation_tasks'[lastOp'.key] = Len(tasks') ]_vars

\* a group conversation was interrupted while it ran, the interrupt
\* returned with the key popped, and the next trigger for the key started
\* a new conversation
C6_Witness ==
    /\ lastOp.op = "trigger" /\ lastOp.spawned /\ lastOp.prior = "absent"
    /\ lastOp.key = GroupId("A")
    /\ \E t \in TaskIds :
           /\ t < lastOp.task
           /\ tasks[t].key = lastOp.key
           /\ tasks[t].state = "cancelled"
    /\ \A c \in Clients : ~InAwaitTask(handler[c])

\* C7: the key of a conversation task that has terminated is not in the
\* task map, unless an interrupt that waits for this task is about to pop it
C7_KeyAbsentAfterEnd ==
    \A key \in DOMAIN current_conversation_tasks :
        done(current_conversation_tasks[key]) =>
            \E c \in Clients :
                /\ handler[c].pc \in {"gi_wait", "ii_wait", "dc_wait"}
                /\ handler[c].task = current_conversation_tasks[key]

\* Task.cancel() was called on the task
CancelRequested(t) == tasks[t].must_cancel \/ tasks[t].state = "cancelled"

\* C8: once the key of a cancelled conversation task no longer leads to
\* the task, none of its synthesis tasks and none of its drainers is
\* still running
C8_ChildrenEndBeforeSlotCleared ==
    \A t \in TaskIds :
        ( /\ CancelRequested(t)
          /\ ~( /\ tasks[t].key \in DOMAIN current_conversation_tasks
                /\ current_conversation_tasks[tasks[t].key] = t ) )
        => \A u \in DOMAIN tasks[t].tts :
               /\ LiveSynth(tasks[t].tts[u]) = {}
               /\ tasks[t].tts[u].sender_task \in {"none", "done"}

\* C9: the owner of every group is one of its members
C9_OwnerIsMember ==
    \A g \in DOMAIN groups : groups[g].owner_uid \in groups[g].members

\* C10: no group has fewer than two members
C10_NoSmallGroup ==
    \A g \in DOMAIN groups : Cardinality(groups[g].members) >= 2

\* C11: an add-client-to-group whose invitee is not a connected client, or
\* is in a group already, does not succeed
C11_InviteFailsForUnknownOrGrouped ==
    [][ ( /\ lastOp'.op = "add-client-to-group"
          /\ \/ lastOp'.prior \notin client_connections
             \/ get_client_group(client_group_map, groups, lastOp'.prior) # NoGroup )
        => lastOp'.status # "ok" ]_vars

\* C12: a remove-client-from-group succeeds only when the remover is the
\* target itself or the owner of the group the target is in
C12_OnlyOwnerOrSelfRemoves ==
    [][ (lastOp'.op = "remove-client-from-group" /\ lastOp'.status = "ok") =>
            LET target_group ==
                    get_client_group(client_group_map, groups, lastOp'.prior)
            IN \/ lastOp'.uid = lastOp'.prior
               \/ /\ target_group # NoGroup
                  /\ groups[target_group].owner_uid = lastOp'.uid ]_vars

\* a member that is not the owner asked to remove another member of its
\* group and was refused
C12_Witness ==
    /\ lastOp.op = "remove-client-from-group"
    /\ lastOp.status = "fail"
    /\ lastOp.uid # lastOp.prior
    /\ LET target_group == get_client_group(client_group_map, groups, lastOp.prior)
       IN /\ target_group # NoGroup
          /\ lastOp.uid \in groups[target_group].members
          /\ groups[target_group].owner_uid # lastOp.uid

\* the operations the registry has to refuse: an invitee that is not
\* connected or is in a group, a target that is in no group, a remover that
\* is neither the target nor the owner of the target's group
InvalidOperation(operation, client_uid, target_uid) ==
    LET target_group == get_client_group(client_group_map, groups, target_uid)
    IN IF operation = "add-client-to-group"
       THEN target_uid \notin client_connections \/ target_group # NoGroup
       ELSE \/ target_group = NoGroup
            \/ /\ client_uid # target_uid
               /\ groups[target_group].owner_uid # client_uid

\* C13: an invalid group operation is answered with the failure result
\* (group-operation-result, success false, sent to the initiator) and leaves
\* the client-to-group map and the groups as they were
C13_InvalidOperationChangesNothing ==
    [][ ( /\ lastOp'.op \in GroupOps
          /\ InvalidOperation(lastOp'.op, lastOp'.uid, lastOp'.prior) )
        => /\ lastOp'.status = "fail"
           /\ client_group_map' = client_group_map
           /\ groups' = groups ]_vars

\* the group conversations in progress
GroupTasks == {t \in TaskIds : tasks[t].kind = "group" /\ tasks[t].state = "running"}

\* no turn of conversation t has been cut short: every member is in the
\* queue or is the speaker
NoTurnFailed(t) ==
    /\ tasks[t].stage # "member_error"
    /\ Len(tasks[t].group_queue) + (IF tasks[t].speaker = "" THEN 0 ELSE 1)
           = Cardinality(tasks[t].members)

\* C14: in a conversation of m members in which no turn was cut short the
\* members are served in cycles: the first m turns serve m different
\* members, every later turn serves the member served m turns before, and
\* between turns the queue holds the members in the order of their last turns
C14_RotationIsCyclic ==
    \A t \in GroupTasks :
        NoTurnFailed(t) =>
            LET log == tasks[t].served
                m == Cardinality(tasks[t].members)
            IN /\ \A i \in 1..Len(log) :
                      /\ i > m => log[i] = log[i - m]
                      /\ \A j \in 1..(i - 1) : i <= m => log[j] # log[i]
               /\ (tasks[t].stage = "next" /\ Len(log) >= m /\ Len(log) < MaxTurns)
                      => tasks[t].group_queue = SubSeq(log, Len(log) - m + 1, Len(log))

\* two full cycles of three members have been served and no turn failed
C14_Witness ==
    \E t \in GroupTasks :
        /\ NoTurnFailed(t)
        /\ Cardinality(tasks[t].members) = 3
        /\ Len(tasks[t].served) >= 6
        /\ tasks[t].stage = "next"

\* the followed turn of conversation t that starts / is completed in the step
TurnStarts(t) ==
    /\ t \in GroupTasks /\ tasks[t].stage = "next"
    /\ tasks'[t].stage = "stream" /\ tasks'[t].followed

TurnCompletes(t) ==
    /\ t \in GroupTasks /\ tasks[t].stage = "finalize" /\ tasks[t].followed
    /\ tasks'[t].stage = "next"

\* C15: a completed turn leaves the member's cursor at the length of the
\* transcript, its own reply included when the reply is not empty; the
\* context handed to a member at the start of a turn is the transcript from
\* the member's cursor to the end, and holds no entry of the member itself
C15_CursorFollowsTranscript ==
    [][ \A t \in 1..MaxTasks :
          /\ TurnCompletes(t) =>
                 LET member == tasks[t].speaker
                 IN /\ tasks'[t].conversation_history =
                           IF tasks[t].full_response
                           THEN Append(tasks[t].conversation_history, member)
                           ELSE tasks[t].conversation_history
                    /\ tasks'[t].memory_index[member] =
                           Len(tasks'[t].conversation_history)
          /\ TurnStarts(t) =>
                 LET member == tasks'[t].speaker
                     context == tasks'[t].new_messages
                     history == tasks[t].conversation_history
                     cursor == tasks[t].memory_index[member]
                 IN /\ Len(context) = Len(history) - cursor
                    /\ \A i \in 1..Len(context) :
                           /\ context[i] = history[cursor + i]
                           /\ context[i] # member ]_vars

\* a member that has replied in its first turn starts its second turn and is
\* handed the reply another member has made since
C15_Witness ==
    \E t \in GroupTasks :
        /\ tasks[t].stage = "stream" /\ tasks[t].followed
        /\ tasks[t].memory_index[tasks[t].speaker] = 2
        /\ Len(tasks[t].conversation_history) = 3
        /\ Len(tasks[t].new_messages) = 1
        /\ \E i \in 1..Len(tasks[t].conversation_history) :
               tasks[t].conversation_history[i] = tasks[t].speaker

\* C16: when the error of a member's turn has been reported the rotation
\* goes on and the failing member is at the back of the queue
C16_FailedMemberRequeued ==
    [][ \A t \in 1..MaxTasks :
          ( /\ t \in GroupTasks /\ tasks[t].stage = "member_error"
            /\ tasks'[t].stage = "next" )
          => tasks'[t].group_queue =
                 Append(tasks[t].group_queue, tasks[t].speaker) ]_vars

\* C17: once the rotation has started the queue is never found empty and
\* the conversation ends by cancellation only
C17_RotationEndsByCancelOnly ==
    [][ \A t \in 1..MaxTasks :
          ( t \in GroupTasks /\ tasks[t].stage \notin {"input", "report"} )
          => /\ tasks[t].stage = "next" => tasks[t].group_queue # <<>>
             /\ tasks'[t].state \in {"running", "cancelled"} ]_vars

\* a frame was handed to the state machine and changed it
FrameProcessed == vad' # vad

\* C18: while IDLE the machine moves to ACTIVE exactly on the frame that
\* completes required_hits hits in a row, a miss restarts the count, and IDLE
\* is entered on a miss only, so that every utterance starts its count at 0
C18_OnsetOnRequiredHits ==
    [][ FrameProcessed =>
          /\ vad.state = "IDLE" =>
                 /\ vad'.state \in {"IDLE", "ACTIVE"}
                 /\ vad'.state = "ACTIVE" <=>
                        (Hit(vad') /\ vad.run = vad.required_hits - 1)
                 /\ vad.hit_count = vad.run
          /\ (vad.state # "IDLE" /\ vad'.state = "IDLE") =>
                 ~Hit(vad') /\ vad'.hit_count = 0 ]_vars

\* the second utterance has just begun
C18_Witness ==
    /\ vad.state = "ACTIVE" /\ vad.prev = "IDLE"
    /\ vad.yielded = <<"PAUSE">>
    /\ vad.onsets = 2

\* C19: while ACTIVE the machine moves to INACTIVE exactly on the frame that
\* completes required_misses misses in a row, no earlier; a hit sets the
\* miss count to 0; ACTIVE is entered on a hit only, with a miss count of 0
C19_EndOnRequiredMisses ==
    [][ FrameProcessed =>
          /\ vad.state = "ACTIVE" =>
                 /\ vad'.state \in {"ACTIVE", "INACTIVE"}
                 /\ vad'.state = "INACTIVE" <=>
                        (~Hit(vad') /\ vad.run = vad.required_misses - 1)
                 /\ Hit(vad') => vad'.miss_count = 0
                 /\ vad.miss_count = vad.run
          /\ (vad.state # "ACTIVE" /\ vad'.state = "ACTIVE") =>
                 Hit(vad') /\ vad'.miss_count = 0 ]_vars

\* the machine has just left ACTIVE for INACTIVE
C19_Witness ==
    /\ vad.state = "INACTIVE" /\ vad.prev = "ACTIVE"
    /\ ~Hit(vad)

\* C20 as stated: once the thresholds were met again while INACTIVE the
\* utterance does not end
C20_ThresholdMetKeepsUtterance ==
    [][ (FrameProcessed /\ vad.state = "INACTIVE" /\ vad.run > 0)
            => vad'.state # "IDLE" ]_vars

\* C20: while INACTIVE the machine returns to ACTIVE exactly on the frame
\* that completes required_hits hits in a row; the return yields nothing
\* and keeps the buffered frames, and the utterance ends on a miss only
C20_ReturnOnRequiredHits ==
    [][ (FrameProcessed /\ vad.state = "INACTIVE") =>
          /\ vad'.state = "ACTIVE" <=>
                 (Hit(vad') /\ vad.run = vad.required_hits - 1)
          /\ vad'.state = "ACTIVE" =>
                 /\ vad'.yielded = <<>>
                 /\ vad'.probs >= vad.probs /\ vad'.probs > 0
                 /\ vad'.pre_buffer = vad.pre_buffer
          /\ vad'.state = "IDLE" => ~Hit(vad') ]_vars

\* the machine has come back to ACTIVE from INACTIVE
C20_Witness ==
    /\ vad.state = "ACTIVE" /\ vad.prev = "INACTIVE"
    /\ vad.yielded = <<>>
    /\ vad.probs > min_probs

\* C21: the step from INACTIVE to IDLE yields the end-of-speech token, and
\* the segment as well exactly when more than min_probs frames were
\* buffered; the buffer is empty whenever the machine is IDLE, so that an
\* utterance starts with its onset frame alone
C21_IdleBufferEmpty ==
    [][ FrameProcessed =>
          /\ (vad.state = "INACTIVE" /\ vad'.state = "IDLE") =>
                 /\ Head(vad'.yielded) = "RESUME"
                 /\ (vad'.yielded = <<"RESUME", "SEGMENT">>)
                        <=> (update(vad).probs > min_probs)
          /\ vad'.state = "IDLE" => vad'.probs = 0
          /\ (vad.state = "IDLE" /\ vad'.state = "ACTIVE") => vad'.probs = 1 ]_vars


\* C22: when a conversation that was not interrupted ends its turn, and the
\* payload queue is cleared, the payload of every fragment passed to
\* speak() in the turn has been sent
C22_AllSentBeforeClear ==
    [][ \A t \in 1..MaxTasks :
            ( /\ t \in TaskIds
              /\ tasks[t].state = "running"
              /\ ~tasks[t].must_cancel
              /\ tasks'[t].state = "done" )
            => \A u \in DOMAIN tasks[t].tts :
                   Len(tasks[t].tts[u].sent) = Len(tasks[t].tts[u].fragments) ]_vars


\* C23: a turn whose wait for frontend-playback-complete gave up is still
\* finalized: force-new-message and conversation-chain-end are sent and the
\* conversation ends normally
C23_NoAckStillFinalizes ==
    [][ \A t \in 1..MaxTasks :
            ( /\ t \in TaskIds
              /\ tasks[t].state = "running"
              /\ tasks[t].stage = "finalize"
              /\ tasks'[t].state = "done" )
            => /\ lastOp'.op = "task_end"
               /\ {"force-new-message", "conversation-chain-end"}
                      \subseteq lastOp'.signals ]_vars


\* C24: a broadcast of a group conversation does not fail when the
\* membership changes while it is in progress, and it is sent to the
\* membership as it was when the broadcast started
C24_BroadcastToSnapshot ==
    \A t \in TaskIds :
        LET b == tasks[t].broadcast
        IN /\ b.it # "raised"
           /\ b.sent \subseteq b.snapshot \ {b.exclude_uid}
           /\ b.it = "done" =>
                  \A m \in b.snapshot \ {b.exclude_uid} :
                      m \in client_connections => m \in b.sent


\* C25: when handle_disconnect(c) has completed, c is in no group's member
\* set and has no entry in the client-to-group map, the connection map, the
\* context map, the audio-buffer map or the task map; a group c owned that
\* still exists is owned by one of its remaining members
C25_DisconnectLeavesNoTrace ==
    [][ \A c \in AllClients :
            /\ (handler[c].pc # "closed" /\ handler'[c].pc = "closed") =>
                   /\ \A g \in DOMAIN groups' : c \notin groups'[g].members
                   /\ c \notin DOMAIN client_group_map'
                   /\ c \notin client_connections'
                   /\ c \notin client_contexts'
                   /\ c \notin DOMAIN received_data_buffers'
                   /\ ClientKey(c) \notin DOMAIN current_conversation_tasks'
            /\ (handler[c].pc \in {"idle", "dc_wait", "dc_bcast"}
                  /\ handler'[c].pc \in {"dc_notify", "closed"}) =>
                   \A g \in DOMAIN groups \cap DOMAIN groups' :
                       groups[g].owner_uid = c =>
                           groups'[g].owner_uid \in groups'[g].members ]_vars


\* C26: once the group operations in progress have been handled, every
\* connected client a successful invitation or removal affected (the
\* initiator, the target, the members of the groups involved before and
\* after it) was sent a group-update since, and the group-update each
\* connected client received last shows its member list and its ownership
\* flag
C26_UpdatesReachAffected ==
    (\A c \in AllClients : group_update.op[c].pc = "none")
    => \A c \in client_connections :
           /\ ~group_update.view[c].owed
           /\ group_update.view[c].received =>
                  group_update.view[c] =
                      send_group_update(client_group_map, groups, c)


\* C27: a message without a type, or of a type that is not recognized, is
\* ignored: the registry, the scheduler and the sessions are unchanged, no
\* error message is sent, the connection stays open and the message loop
\* waits for the next message
C27_UnknownTypeIgnored ==
    [][ lastOp'.op = "route" =>
          /\ UNCHANGED <<client_connections, client_contexts,
                         received_data_buffers, client_group_map, groups,
                         current_conversation_tasks, tasks, handler>>
          /\ lastOp'.signals = {}
          /\ lastOp'.status = "ignored"
          /\ lastOp'.uid \in client_connections'
          /\ handler'[lastOp'.uid] = Idle ]_vars

\* a message of an unknown type was routed for a client that is in a group
C27_Witness ==
    /\ lastOp.op = "route"
    /\ lastOp.prior = "unknown"
    /\ get_client_group(client_group_map, groups, lastOp.uid) # NoGroup

C29_NumbersTakenInSpeak ==
    \A x \in Managers :
        LET m == Manager(x)
        IN /\ \A n \in 1..Len(m.fragments) : m.fragments[n].seq = n - 1
           /\ \A n, k \in 1..Len(m.fragments) :
                  n # k => m.fragments[n].seq # m.fragments[k].seq
           /\ m.sequence_counter \in {0, Len(m.fragments)}
           /\ tasks[x[1]].state = "running" =>
                  m.sequence_counter = Len(m.fragments)

\* three fragments were numbered, an empty one among them, while the
\* synthesis of the first is still running
C29_Witness ==
    \E x \in Managers :
        LET m == Manager(x)
        IN /\ Len(m.fragments) = 3
           /\ ~m.fragments[1].empty
           /\ m.fragments[2].empty
           /\ 0 \in DOMAIN m.synth /\ m.synth[0].st = "running"
           /\ m.sequence_counter = 3


\* C30: clear() sets the counter and the cursor to 0, cancels the drainer
\* and replaces the queue, and after it no payload is sent: neither one that
\* was queued or buffered, nor the payload of a synthesis that was still
\* running when the manager was cleared
C30_NothingSentAfterClear ==
    [][ \A t \in 1..MaxTasks, u \in AllClients :
            (t \in TaskIds /\ u \in DOMAIN tasks[t].tts) =>
                /\ (tasks[t].state = "running" /\ tasks'[t].state \in Terminal) =>
                       /\ tasks'[t].tts[u].sequence_counter = 0
                       /\ tasks'[t].tts[u].next_sequence_to_send = 0
                       /\ tasks'[t].tts[u].payload_queue = <<>>
                       /\ tasks'[t].tts[u].sender_task \notin {"get", "send"}
                       /\ tasks'[t].tts[u].sent = tasks[t].tts[u].sent
                /\ tasks[t].state \in Terminal =>
                       tasks'[t].tts[u].sent = tasks[t].tts[u].sent ]_vars

\* the manager was cleared while a synthesis was running; the synthesis has
\* ended since and its payload lies in the new queue, the drainer is gone,
\* and fewer payloads were sent than fragments were submitted
C30_Witness ==
    \E x \in Managers :
        LET m == Manager(x)
        IN /\ tasks[x[1]].state \in Terminal
           /\ m.payload_queue # <<>>
           /\ m.sender_task = "done"
           /\ Len(m.sent) < Len(m.fragments)


\* C31: while a group conversation task is running, its
\* GroupConversationState is registered under the id of the group the task
\* is scheduled for, and once the task has ended no state of it is
\* registered; the end of a task does not take away the state of a task
\* that is still running
C31_OneStatePerRunningGroupTask ==
    \A t \in TaskIds :
        tasks[t].kind = "group" =>
            IF tasks[t].state = "running"
            THEN /\ tasks[t].registered
                 /\ tasks[t].state_group_id = tasks[t].key
            ELSE ~tasks[t].registered


\* C32: once the disconnection of a client has been handled to its end, no
\* group conversation is running that has the client in its rotation (as
\* the current speaker or in the queue): the task was cancelled and has
\* terminated
C32_NoRotationWithDisconnected ==
    \A c \in RegClients, t \in TaskIds :
        (/\ handler[c].pc = "closed"
         /\ tasks[t].kind = "group"
         /\ \/ tasks[t].speaker = c
            \/ \E i \in 1..Len(tasks[t].group_queue) : tasks[t].group_queue[i] = c)
        => tasks[t].state \in Terminal

\* C35: the member a group conversation gives a turn to is, when the turn
\* starts, a member of the group the task is scheduled for
C35_ServedAreCurrentMembers ==
    [][\A t \in TaskIds :
          (/\ tasks[t].kind = "group"
           /\ tasks[t].stage = "next"
           /\ tasks'[t].stage = "stream")
          => /\ tasks[t].key \in DOMAIN groups'
             /\ tasks'[t].speaker \in groups'[tasks[t].key].members]_vars


\* C33: when a group conversation serves its first member, the shared
\* transcript consists of exactly the human message that triggered the
\* conversation and the cursor of every member is 0; the first member is
\* handed that message
C33_FirstTurnSeesHumanMessage ==
    [][\A t \in TaskIds :
          (/\ tasks[t].kind = "group"
           /\ tasks[t].served = <<>>
           /\ tasks'[t].served # <<>>)
          => /\ tasks[t].conversation_history = <<Human>>
             /\ \A u \in tasks[t].members : tasks[t].memory_index[u] = 0
             /\ tasks'[t].new_messages = <<Human>>]_vars

C33_Witness ==
    \E t \in TaskIds :
        /\ tasks[t].kind = "group"
        /\ Len(tasks[t].served) = 1
        /\ tasks[t].stage = "stream"
        /\ tasks[t].new_messages = <<Human>>


\* C34: when the interrupt-signal of a client has been handled, no
\* conversation task that was started before it and produces output for
\* the client (the client's single conversation, or a group conversation
\* with the client in its rotation) is still running
C34_InterruptStopsOutput ==
    [][\A c \in Clients :
          (/\ lastOp'.op \in {"individual_interrupt", "group_interrupt"}
           /\ lastOp'.uid = c
           /\ handler'[c].pc = "idle")
          => \A t \in 1..lastOp'.task :
                 (\/ tasks'[t].kind = "single" /\ tasks'[t].client = c
                  \/ /\ tasks'[t].kind = "group"
                     /\ \/ tasks'[t].speaker = c
                        \/ \E i \in 1..Len(tasks'[t].group_queue) :
                               tasks'[t].group_queue[i] = c)
                 => tasks'[t].state \in Terminal]_vars


\* C36: in a group conversation every transcript entry that a member did
\* not write is handed to the member in exactly one of its turns, the first
\* one after the entry was appended (no entry the member's cursor has
\* passed, and none present when its turn started, is missing, and none is
\* handed over twice), and the member's own replies are never handed to it
C36_EveryEntryShownOnce ==
    \A t \in TaskIds :
        (tasks[t].kind = "group" /\ tasks[t].state = "running") =>
            \A u \in tasks[t].members :
                LET shown == tasks[t].shown[u]
                    Times(p) == Cardinality({i \in 1..Len(shown) : shown[i] = p})
                    started == tasks[t].speaker = u /\ tasks[t].followed
                IN \A p \in 1..Len(tasks[t].conversation_history) :
                       IF tasks[t].conversation_history[p] = u
                       THEN Times(p) = 0
                       ELSE /\ Times(p) <= 1
                            /\ (p <= tasks[t].memory_index[u] \/ started)
                                   => Times(p) = 1

\* a member in its second turn: it was handed entries in both of its turns
\* and the transcript holds a reply of its own
C36_Witness ==
    \E t \in TaskIds : \E u \in tasks[t].members :
        /\ tasks[t].kind = "group" /\ tasks[t].state = "running"
        /\ tasks[t].speaker = u /\ tasks[t].followed
        /\ Len(tasks[t].served) >= 4
        /\ Len(tasks[t].shown[u]) >= 2
        /\ Cardinality({p \in 1..Len(tasks[t].conversation_history) :
                           tasks[t].conversation_history[p] = u}) >= 1
        /\ tasks[t].new_messages # <<>>


\* C37: in a turn with synthesized fragments, whenever
\* backend-synth-complete is sent to the client, the drainer has handed the
\* payload of every fragment of the turn to the client's socket before
C37_SynthCompleteAfterPayloads ==
    [][\A t \in TaskIds :
          LET m == tasks[t].tts[tasks[t].speaker]
          IN (/\ tasks[t].state = "running"
              /\ m.task_list # {}
              /\ \/ tasks[t].stage = "gather" /\ tasks'[t].stage = "finalize"
                 \/ /\ tasks[t].stage = "finalize"
                    /\ tasks'[t].stage # "finalize"
                    /\ "backend-synth-complete" \in lastOp'.signals)
             => Len(m.sent) = m.sequence_counter]_vars

\* C38: a turn that synthesized a fragment and runs to its end has sent
\* backend-synth-complete exactly once
C38_SynthCompleteOnce ==
    [][\A t \in TaskIds :
          LET m == tasks[t].tts[tasks[t].speaker]
              finalize == IF "backend-synth-complete" \in lastOp'.signals
                          THEN 1 ELSE 0
          IN (/\ tasks[t].state = "running"
              /\ m.task_list # {}
              /\ tasks[t].stage = "finalize"
              /\ tasks'[t].stage # "finalize"
              /\ tasks'[t].state \in {"running", "done"})
             => tasks[t].synth_complete + finalize = 1]_vars


\* C39: the control tokens of the engine alternate, beginning with the
\* onset token: PAUSE is yielded by exactly the frames that take the
\* machine from IDLE to ACTIVE, RESUME by exactly the frames that take it
\* from INACTIVE to IDLE, and a segment is yielded only right after RESUME
C39_TokensAlternate ==
    /\ vad.alternates
    /\ vad.yielded \in {<<>>, <<"PAUSE">>, <<"RESUME">>, <<"RESUME", "SEGMENT">>}
    /\ (vad.yielded = <<"PAUSE">>)
           <=> (vad.prev = "IDLE" /\ vad.state = "ACTIVE")
    /\ (vad.yielded # <<>> /\ vad.yielded[1] = "RESUME")
           <=> (vad.prev = "INACTIVE" /\ vad.state = "IDLE")

\* the second utterance has ended and its segment was yielded
C39_Witness ==
    /\ vad.onsets = 2
    /\ vad.yielded = <<"RESUME", "SEGMENT">>
    /\ vad.last_token = "RESUME"


\* the frames first..last in input order
FrameRange(first, last) ==
    [i \in 1..(last - first + 1) |-> first + i - 1]

\* C40: a segment the engine yields consists of at most the last
\* pre_buffer_maxlen frames received while IDLE before the onset, followed
\* by the frames from the onset to the end of the utterance, in input
\* order, and no frame is in it twice
C40_SegmentIsPreRollThenSpeech ==
    vad.segment # <<>> =>
        \E k \in 0..pre_buffer_maxlen :
            /\ vad.onset_frame - k >= vad.idle_start
            /\ vad.segment = FrameRange(vad.onset_frame - k, vad.onset_frame - 1)
                                 \o FrameRange(vad.onset_frame, vad.frame)

====
